---------------------------- MODULE Spec2Model ----------------------------
(***************************************************************************)
(* The SLD-resolution engine of LegalMente (src/core/motor_inferencia.py): *)
(* terms, substitution application, unification, rule freshening and the   *)
(* depth-first search generator, with the query driver that consumes it.   *)
(*                                                                         *)
(* Python values are encoded as tagged tuples:                             *)
(*   a str   "Costo"      is  <<"str", "C", "osto">>  (first character     *)
(*                             kept apart: es_variable looks at it),       *)
(*   an int  100          is  <<"int", 100>>,                              *)
(*   a tuple (t1, .., tn) is  <<"tup", <<t1, .., tn>>>>.                    *)
(* A dict is a function whose domain is its set of keys.                   *)
(***************************************************************************)
EXTENDS Integers, Sequences, FiniteSets, TLC

VARIABLES
    \* --- a call of unificar seen from its caller (SpecUnif) ---
    p1, p2,          \* the two patterns handed to unificar
    memoria,         \* the dict objects that exist: memoria[r] is the content of object r
    sustituciones,   \* the caller's reference to the dict it passes in
    resultado,       \* what unificar returned: a reference, or None
    previo,          \* the bindings the caller's dict had when the call was made
    ufase,           \* "antes" | "despues" of the call
    \* --- aplicar_sustituciones, statement by statement (SpecAplicar) ---
    atermino,        \* the term the call was given
    asust,           \* the dict the call was given
    apila,           \* the recursion of line 50: frames [items, k, hechos_]
    aactual,         \* the local `termino` of the while loop of lines 43-47
    amodo,           \* "iter" | "while" | "fin"
    avuelta,         \* 1 for the first application, 2 for the re-application
    aprimero,        \* the result of the first application
    \* --- regla_fresca called repeatedly on one counter (SpecFresca) ---
    fcontador,       \* ContadorVariables.contador
    fllamadas,       \* the calls made so far: [regla, fresca, desde, hasta]
    \* --- solve and sld_solve (Spec) ---
    kb,              \* [hechos, reglas]
    query,           \* the query handed to sld_solve
    pila,            \* the generator frames of solve, outermost first
    contador,        \* the ContadorVariables of this query
    soluciones,      \* what the consumer has received so far, in order
    intentos,        \* history: every candidate tried: its path in the search tree,
                     \* the dict unificar was given and what it returned
    spc,             \* sld_solve: "buscar" | "consumir" | "fin" | "error"
    pasos,           \* history: the steps sld_solve and solve have taken
    salida,          \* what sld_solve has printed about the solutions
    \* --- BackendLegal and repeated queries (SpecSesion, SpecPermutada) ---
    objetos,         \* the list objects that exist: objetos[r] is the content of list r
    KB_BASE,         \* BackendLegal.KB_BASE: [hechos, reglas], references to lists
    HECHOS_SESION,   \* BackendLegal.HECHOS_SESION: a reference to a list
    kb_actual,       \* the dict consultar_motor_real hands to sld_solve
    previas,         \* history: the calls of sld_solve that have ended
    raw              \* what consultar_motor_real returned last, Pendiente while
                     \* a call of it is under way

uvars == <<p1, p2, memoria, sustituciones, resultado, previo, ufase>>
avars == <<atermino, asust, apila, aactual, amodo, avuelta, aprimero>>
fvars == <<fcontador, fllamadas>>
svars == <<kb, query, pila, contador, soluciones, intentos, spc, pasos, salida>>
hvars == <<objetos, KB_BASE, HECHOS_SESION, kb_actual, previas, raw>>
vars == <<uvars, avars, fvars, svars, hvars>>

---------------------------------------------------------------------------
(* Terms *)

Str(c, resto) == <<"str", c, resto>>
Num(n) == <<"int", n>>
Tup(s) == <<"tup", s>>

EsStr(t) == t[1] = "str"
EsTupla(t) == t[1] = "tup"
Elems(t) == t[2]

Mayusculas ==
    {"A", "B", "C", "D", "E", "F", "G", "H", "I", "J", "K", "L", "M",
     "N", "O", "P", "Q", "R", "S", "T", "U", "V", "W", "X", "Y", "Z"}

\* Mutant of es_variable: the internal marker '_' is not recognised.
es_variable_sin_marca(termino) ==
    EsStr(termino) /\ termino[2] \in Mayusculas

\* es_variable: a str whose first character is uppercase or '_'.
es_variable(termino) ==
    EsStr(termino) /\ (termino[2] \in Mayusculas \/ termino[2] = "_")

\* The test of line 191: a user variable starts with an uppercase letter.
es_variable_usuario(termino) ==
    es_variable(termino) /\ termino[2] \in Mayusculas

\* dict: d[k] = v
Put(d, k, v) == [x \in DOMAIN d \cup {k} |-> IF x = k THEN v ELSE d[x]]

DictVacio == [x \in {} |-> x]

---------------------------------------------------------------------------
(* aplicar_sustituciones, as the function it computes *)

\* Mutant of Seguir: the bindings of the variable are not followed.
Seguir_sin_seguir(termino, sust) == termino

\* The while loop of lines 43-47: follow the bindings of `termino` until it
\* is not a key, or is bound to itself. Defined only where the loop ends.
RECURSIVE Seguir(_, _)
Seguir(termino, sust) ==
    IF termino \notin DOMAIN sust THEN termino
    ELSE LET termino_nuevo == sust[termino]
         IN  IF termino_nuevo = termino THEN termino
             ELSE Seguir(termino_nuevo, sust)

RECURSIVE aplicar_sustituciones(_, _)
aplicar_sustituciones(termino, sust) ==
    IF es_variable(termino) THEN Seguir(termino, sust)
    ELSE IF EsTupla(termino)
         THEN Tup([k \in 1..Len(Elems(termino)) |->
                      aplicar_sustituciones(Elems(termino)[k], sust)])
         ELSE termino

RECURSIVE VariablesDe(_)
VariablesDe(t) ==
    IF EsTupla(t) THEN UNION {VariablesDe(Elems(t)[k]) : k \in 1..Len(Elems(t))}
    ELSE IF es_variable(t) THEN {t} ELSE {}

\* The while loop of lines 43-47 started at `termino` never ends: the chain
\* of bindings comes back to a key it has left (a self-binding ends it).
RECURSIVE CadenaSinFin(_, _, _)
CadenaSinFin(termino, sust, vistos) ==
    IF termino \notin DOMAIN sust THEN FALSE
    ELSE IF sust[termino] = termino THEN FALSE
    ELSE IF termino \in vistos THEN TRUE
    ELSE CadenaSinFin(sust[termino], sust, vistos \cup {termino})

\* The dicts on which every call of aplicar_sustituciones returns.
SinCiclos(sust) == \A v \in DOMAIN sust : ~CadenaSinFin(v, sust, {})

---------------------------------------------------------------------------
(* ContadorVariables, renombrar_variables, regla_fresca *)

\* Mutant of siguiente: the counter is returned as it is.
siguiente_sin_avance(c) == c

siguiente(c) == c + 1

NombreFresco(termino, n) ==
    Str("_", termino[2] \o termino[3] \o "_" \o ToString(n))

RECURSIVE renombrar_variables(_, _, _)
RECURSIVE RenombrarLista(_, _, _)

\* Mutant of renombrar_variables: a value of the counter is taken at every
\* occurrence of a variable, the table is not looked up.
renombrar_variables_cada_aparicion(termino, tabla, cont) ==
    IF es_variable(termino) THEN
        LET n == siguiente(cont)
        IN  [t |-> NombreFresco(termino, n),
             tabla |-> Put(tabla, termino, NombreFresco(termino, n)),
             cont |-> n]
    ELSE IF EsTupla(termino)
         THEN LET r == RenombrarLista(Elems(termino), tabla, cont)
              IN  [t |-> Tup(r.ts), tabla |-> r.tabla, cont |-> r.cont]
         ELSE [t |-> termino, tabla |-> tabla, cont |-> cont]

\* Returns the renamed term with the renaming table and the counter as the
\* call leaves them (both are mutated in place by the code).
renombrar_variables(termino, tabla, cont) ==
    IF es_variable(termino) THEN
        IF termino \notin DOMAIN tabla
        THEN LET n == siguiente(cont)
             IN  [t |-> NombreFresco(termino, n),
                  tabla |-> Put(tabla, termino, NombreFresco(termino, n)),
                  cont |-> n]
        ELSE [t |-> tabla[termino], tabla |-> tabla, cont |-> cont]
    ELSE IF EsTupla(termino)
         THEN LET r == RenombrarLista(Elems(termino), tabla, cont)
              IN  [t |-> Tup(r.ts), tabla |-> r.tabla, cont |-> r.cont]
         ELSE [t |-> termino, tabla |-> tabla, cont |-> cont]

\* The generator expressions of lines 67 and 81: left to right.
RenombrarLista(ts, tabla, cont) ==
    IF ts = <<>> THEN [ts |-> <<>>, tabla |-> tabla, cont |-> cont]
    ELSE LET r == renombrar_variables(Head(ts), tabla, cont)
             rs == RenombrarLista(Tail(ts), r.tabla, r.cont)
         IN  [ts |-> <<r.t>> \o rs.ts, tabla |-> rs.tabla, cont |-> rs.cont]

\* Mutant of regla_fresca: the body is renamed with a table of its own.
regla_fresca_tabla_aparte(regla, cont) ==
    LET c == renombrar_variables(regla.cabeza, DictVacio, cont)
        b == RenombrarLista(regla.cuerpo, DictVacio, c.cont)
    IN  [cabeza |-> c.t, cuerpo |-> b.ts, cont |-> b.cont]

\* Mutant of regla_fresca: only the head is renamed, the body keeps the
\* variables of the rule as written.
regla_fresca_cuerpo_original(regla, cont) ==
    LET c == renombrar_variables(regla.cabeza, DictVacio, cont)
    IN  [cabeza |-> c.t, cuerpo |-> regla.cuerpo, cont |-> c.cont]

regla_fresca(regla, cont) ==
    LET c == renombrar_variables(regla.cabeza, DictVacio, cont)
        b == RenombrarLista(regla.cuerpo, c.tabla, c.cont)
    IN  [cabeza |-> c.t, cuerpo |-> b.ts, cont |-> b.cont]

---------------------------------------------------------------------------
(* unificar, over dict objects *)

None == 0

\* unificar has no occurs-check: once a variable is bound to a compound
\* that contains it, unifying the two again recurses without end and the
\* interpreter raises RecursionError. The model raises it at this depth of
\* nested unificar calls, which no returning call of the bounded inputs
\* comes near.
LimiteRecursion == 6
RecursionError == -1

RECURSIVE unificar_obj(_, _, _, _, _)
RECURSIVE UnificarElementos(_, _, _, _, _, _)

\* Mutant of unificar_obj: `subs = sustituciones` (no copy).
unificar_obj_sin_copia(a, b, ref, mem, prof) ==
    IF prof > LimiteRecursion THEN [ref |-> RecursionError, mem |-> mem] ELSE
    LET q1 == aplicar_sustituciones(a, mem[ref])
        q2 == aplicar_sustituciones(b, mem[ref])
    IN  IF q1 = q2 THEN [ref |-> ref, mem |-> mem]
        ELSE IF es_variable(q1)
             THEN [ref |-> ref, mem |-> [mem EXCEPT ![ref] = Put(@, q1, q2)]]
        ELSE IF es_variable(q2)
             THEN [ref |-> ref, mem |-> [mem EXCEPT ![ref] = Put(@, q2, q1)]]
        ELSE IF EsTupla(q1) /\ EsTupla(q2)
             THEN IF Len(Elems(q1)) # Len(Elems(q2))
                  THEN [ref |-> None, mem |-> mem]
                  ELSE UnificarElementos(Elems(q1), Elems(q2), 1, ref, mem, prof)
        ELSE [ref |-> None, mem |-> mem]

\* Mutant of unificar_obj: the second pattern is looked at first, and when
\* it is a variable it is the one bound.
unificar_obj_liga_segunda(a, b, ref, mem, prof) ==
    IF prof > LimiteRecursion THEN [ref |-> RecursionError, mem |-> mem] ELSE
    LET mem1 == Append(mem, mem[ref])
        subs == Len(mem1)
        q1 == aplicar_sustituciones(a, mem1[subs])
        q2 == aplicar_sustituciones(b, mem1[subs])
    IN  IF q1 = q2 THEN [ref |-> subs, mem |-> mem1]
        ELSE IF es_variable(q2)
             THEN [ref |-> subs, mem |-> [mem1 EXCEPT ![subs] = Put(@, q2, q1)]]
        ELSE IF es_variable(q1)
             THEN [ref |-> subs, mem |-> [mem1 EXCEPT ![subs] = Put(@, q1, q2)]]
        ELSE IF EsTupla(q1) /\ EsTupla(q2)
             THEN IF Len(Elems(q1)) # Len(Elems(q2))
                  THEN [ref |-> None, mem |-> mem1]
                  ELSE UnificarElementos(Elems(q1), Elems(q2), 1, subs, mem1, prof)
        ELSE [ref |-> None, mem |-> mem1]

\* Mutant of unificar_obj: the lengths are not compared, the elements are
\* unified pairwise as far as the shorter tuple goes.
unificar_obj_sin_largo(a, b, ref, mem, prof) ==
    IF prof > LimiteRecursion THEN [ref |-> RecursionError, mem |-> mem] ELSE
    LET mem1 == Append(mem, mem[ref])
        subs == Len(mem1)
        q1 == aplicar_sustituciones(a, mem1[subs])
        q2 == aplicar_sustituciones(b, mem1[subs])
        corto == IF Len(Elems(q1)) < Len(Elems(q2)) THEN Len(Elems(q1)) ELSE Len(Elems(q2))
    IN  IF q1 = q2 THEN [ref |-> subs, mem |-> mem1]
        ELSE IF es_variable(q1)
             THEN [ref |-> subs, mem |-> [mem1 EXCEPT ![subs] = Put(@, q1, q2)]]
        ELSE IF es_variable(q2)
             THEN [ref |-> subs, mem |-> [mem1 EXCEPT ![subs] = Put(@, q2, q1)]]
        ELSE IF EsTupla(q1) /\ EsTupla(q2)
             THEN UnificarElementos(SubSeq(Elems(q1), 1, corto),
                                    SubSeq(Elems(q2), 1, corto), 1, subs, mem1, prof)
        ELSE [ref |-> None, mem |-> mem1]

\* Mutant of unificar_obj: the patterns are compared and bound as given,
\* the bindings of the dict are not applied to them first.
unificar_obj_sin_resolver(a, b, ref, mem, prof) ==
    IF prof > LimiteRecursion THEN [ref |-> RecursionError, mem |-> mem] ELSE
    LET mem1 == Append(mem, mem[ref])
        subs == Len(mem1)
    IN  IF a = b THEN [ref |-> subs, mem |-> mem1]
        ELSE IF es_variable(a)
             THEN [ref |-> subs, mem |-> [mem1 EXCEPT ![subs] = Put(@, a, b)]]
        ELSE IF es_variable(b)
             THEN [ref |-> subs, mem |-> [mem1 EXCEPT ![subs] = Put(@, b, a)]]
        ELSE IF EsTupla(a) /\ EsTupla(b)
             THEN IF Len(Elems(a)) # Len(Elems(b))
                  THEN [ref |-> None, mem |-> mem1]
                  ELSE UnificarElementos(Elems(a), Elems(b), 1, subs, mem1, prof)
        ELSE [ref |-> None, mem |-> mem1]

\* unificar(p1, p2, sustituciones) where `ref` is the dict object passed in,
\* `mem` the objects that exist and `prof` the depth of the call. Returns
\* the reference returned by the code (None on failure, RecursionError when
\* the call raises) and the objects as the call leaves them.
unificar_obj(a, b, ref, mem, prof) ==
    IF prof > LimiteRecursion THEN [ref |-> RecursionError, mem |-> mem] ELSE
    LET mem1 == Append(mem, mem[ref])          \* subs = sustituciones.copy()
        subs == Len(mem1)
        q1 == aplicar_sustituciones(a, mem1[subs])
        q2 == aplicar_sustituciones(b, mem1[subs])
    IN  IF q1 = q2 THEN [ref |-> subs, mem |-> mem1]
        ELSE IF es_variable(q1)
             THEN [ref |-> subs, mem |-> [mem1 EXCEPT ![subs] = Put(@, q1, q2)]]
        ELSE IF es_variable(q2)
             THEN [ref |-> subs, mem |-> [mem1 EXCEPT ![subs] = Put(@, q2, q1)]]
        ELSE IF EsTupla(q1) /\ EsTupla(q2)
             THEN IF Len(Elems(q1)) # Len(Elems(q2))
                  THEN [ref |-> None, mem |-> mem1]
                  ELSE UnificarElementos(Elems(q1), Elems(q2), 1, subs, mem1, prof)
        ELSE [ref |-> None, mem |-> mem1]

\* Mutant of UnificarElementos: the loop stops one element short.
UnificarElementos_uno_menos(e1, e2, i, subs, mem, prof) ==
    IF i > Len(e1) - 1 THEN [ref |-> subs, mem |-> mem]
    ELSE LET subs_nuevas == unificar_obj(e1[i], e2[i], subs, mem, prof + 1)
         IN  IF subs_nuevas.ref \in {None, RecursionError}
             THEN [ref |-> subs_nuevas.ref, mem |-> subs_nuevas.mem]
             ELSE UnificarElementos(e1, e2, i + 1, subs_nuevas.ref,
                                    subs_nuevas.mem, prof)

\* Mutant of UnificarElementos: the dict an element pair gives is not kept
\* (`subs = subs_nuevas` is left out), every pair starts from the first dict.
UnificarElementos_sin_hilar(e1, e2, i, subs, mem, prof) ==
    IF i > Len(e1) THEN [ref |-> subs, mem |-> mem]
    ELSE LET subs_nuevas == unificar_obj(e1[i], e2[i], subs, mem, prof + 1)
         IN  IF subs_nuevas.ref \in {None, RecursionError}
             THEN [ref |-> subs_nuevas.ref, mem |-> subs_nuevas.mem]
             ELSE UnificarElementos(e1, e2, i + 1, subs, subs_nuevas.mem, prof)

\* The loop of lines 118-123 from index i on, `subs` being the local. A
\* RecursionError raised by the inner call leaves the loop as it is raised.
UnificarElementos(e1, e2, i, subs, mem, prof) ==
    IF i > Len(e1) THEN [ref |-> subs, mem |-> mem]
    ELSE LET subs_nuevas == unificar_obj(e1[i], e2[i], subs, mem, prof + 1)
         IN  IF subs_nuevas.ref \in {None, RecursionError}
             THEN [ref |-> subs_nuevas.ref, mem |-> subs_nuevas.mem]
             ELSE UnificarElementos(e1, e2, i + 1, subs_nuevas.ref,
                                    subs_nuevas.mem, prof)

\* The value unificar returned is a dict (line 155).
Exito(r) == r \notin {None, RecursionError}

\* unificar as the search uses it: the returned dict by value.
unificar(a, b, sust) ==
    LET r == unificar_obj(a, b, 1, <<sust>>, 1)
    IN  [ok |-> r.ref \notin {None, RecursionError},
         error |-> r.ref = RecursionError,
         subs |-> IF r.ref \notin {None, RecursionError}
                  THEN r.mem[r.ref] ELSE DictVacio]

---------------------------------------------------------------------------
(* Bounded inputs of the function-level specifications *)

NumAtomos == 2
NombresAtomos == <<"a", "b", "c", "d">>

Atomos == {Str(NombresAtomos[i], "") : i \in 1..NumAtomos}
Variables == {Str("X", ""), Str("Y", "")}
Hojas == Atomos \cup Variables

\* Compounds that occur as arguments of other compounds.
Internos == {Tup(<<h>>) : h \in Variables \cup {Str("a", "")}}
Argumentos == Hojas \cup Internos

Terminos ==
    Argumentos \cup {Tup(<<x>>) : x \in Argumentos}
               \cup {Tup(<<x, y>>) : x \in Argumentos, y \in Argumentos}

\* Dicts over the variables on which aplicar_sustituciones returns.
Sustituciones ==
    {s \in UNION {[D -> Argumentos] : D \in SUBSET Variables} : SinCiclos(s)}

RECURSIVE EsCerrado(_)
EsCerrado(t) ==
    IF EsTupla(t) THEN \A k \in 1..Len(Elems(t)) : EsCerrado(Elems(t)[k])
    ELSE ~es_variable(t)

---------------------------------------------------------------------------
(* Idle values of the variables a specification does not use *)

ReposoU ==
    /\ p1 = Str("a", "") /\ p2 = Str("a", "")
    /\ memoria = <<DictVacio>> /\ sustituciones = 1
    /\ resultado = None /\ previo = DictVacio /\ ufase = "reposo"

ReposoA ==
    /\ atermino = Str("a", "") /\ asust = DictVacio /\ apila = <<>>
    /\ aactual = Str("a", "") /\ amodo = "reposo" /\ avuelta = 0
    /\ aprimero = Str("a", "")

ReposoF == fcontador = 0 /\ fllamadas = <<>>

ReposoS ==
    /\ kb = [hechos |-> <<>>, reglas |-> <<>>] /\ query = Str("a", "")
    /\ pila = <<>> /\ contador = 0 /\ soluciones = <<>> /\ intentos = <<>>
    /\ spc = "reposo" /\ pasos = 0 /\ salida = <<>>

ReposoH ==
    /\ objetos = <<>> /\ previas = <<>>
    /\ KB_BASE = [hechos |-> 0, reglas |-> 0] /\ HECHOS_SESION = 0
    /\ kb_actual = [hechos |-> 0, reglas |-> 0]
    /\ raw = <<>>

---------------------------------------------------------------------------
(* SpecUnif: one call of unificar on bounded inputs *)

InitUnif ==
    /\ p1 \in Terminos
    /\ p2 \in Terminos
    /\ \E s \in Sustituciones : memoria = <<s>> /\ previo = s
    /\ sustituciones = 1
    /\ resultado = None
    /\ ufase = "antes"
    /\ ReposoA /\ ReposoF /\ ReposoS /\ ReposoH

LlamarUnificar ==
    /\ ufase = "antes"
    /\ LET r == unificar_obj(p1, p2, sustituciones, memoria, 1)
       IN  memoria' = r.mem /\ resultado' = r.ref
    /\ ufase' = "despues"
    /\ UNCHANGED <<p1, p2, sustituciones, previo, avars, fvars, svars, hvars>>

NextUnif == LlamarUnificar

SpecUnif == InitUnif /\ [][NextUnif]_vars

---------------------------------------------------------------------------
(* SpecCadena: unificar called again and again, each call on the dict the
   last successful call returned, the first on the empty dict *)

\* The patterns of the calls: the arguments, and the pairs that begin with
\* a variable.
TerminosCadena ==
    Argumentos \cup {Tup(<<x, y>>) : x \in Variables, y \in Argumentos}

InitCadena ==
    /\ memoria = <<DictVacio>> /\ sustituciones = 1
    /\ p1 = Str("a", "") /\ p2 = Str("a", "")
    /\ resultado = None /\ previo = DictVacio /\ ufase = "cadena"
    /\ ReposoA /\ ReposoF /\ ReposoS /\ ReposoH

\* subs_unificacion = unificar(a, b, sustituciones), and where it is not
\* None the caller goes on with it (lines 152-157); the dicts no longer
\* referred to are dropped.
EncadenarUnificar ==
    /\ ufase = "cadena"
    /\ \E a \in TerminosCadena, b \in TerminosCadena :
          LET r == unificar_obj(a, b, sustituciones, memoria, 1)
          IN  /\ Exito(r.ref)
              /\ memoria' = <<r.mem[r.ref]>>
    /\ UNCHANGED <<p1, p2, sustituciones, resultado, previo, ufase,
                   avars, fvars, svars, hvars>>

NextCadena == EncadenarUnificar

SpecCadena == InitCadena /\ [][NextCadena]_vars

\* C28: a dict built by successful calls of unificar, the first on the
\* empty dict and each next on the dict the one before returned, has only
\* variables as keys, binds no variable to itself and holds no chain of
\* bindings that comes back to a variable it has left; so the loop of
\* aplicar_sustituciones ends on it for every term.
C28_SinCiclosDeVariables ==
    LET d == memoria[sustituciones]
    IN  /\ \A v \in DOMAIN d : es_variable(v) /\ d[v] # v
        /\ SinCiclos(d)

\* X was bound to Y, and Y then to a compound that holds Y itself.
C28_Testigo ==
    /\ ufase = "cadena"
    /\ memoria[sustituciones] =
          (Str("X", "") :> Str("Y", "") @@ Str("Y", "") :> Tup(<<Str("Y", "")>>))

---------------------------------------------------------------------------
(* SpecAplicar: aplicar_sustituciones statement by statement, applied to a
   term and then once more to its own result *)

\* Every dict over the variables, the ones with circular chains included.
TodasSustituciones == UNION {[D -> Argumentos] : D \in SUBSET Variables}

Llamada(termino) == [termino |-> termino, k |-> 1, listos |-> <<>>]

InitAplicar ==
    /\ atermino \in Terminos
    /\ asust \in TodasSustituciones
    /\ apila = <<Llamada(atermino)>>
    /\ aactual = atermino
    /\ amodo = "llamada"
    /\ avuelta = 1
    /\ aprimero = atermino
    /\ ReposoU /\ ReposoF /\ ReposoS /\ ReposoH

\* `return valor` from the innermost call: the outermost call hands the
\* value to the caller, an inner one hands it to the generator of line 50.
Retornar(valor) ==
    IF Len(apila) = 1
    THEN /\ apila' = <<>>
         /\ aactual' = valor
         /\ amodo' = "fin"
    ELSE LET n == Len(apila) - 1
         IN  /\ apila' = [SubSeq(apila, 1, n) EXCEPT
                            ![n].listos = Append(@, valor), ![n].k = @ + 1]
             /\ aactual' = aactual
             /\ amodo' = "tupla"

\* Lines 42, 49, 51-52: the dispatch on the kind of term.
AplEntrar ==
    /\ amodo = "llamada"
    /\ LET t == apila[Len(apila)].termino
       IN  IF es_variable(t)
           THEN amodo' = "while" /\ aactual' = t /\ apila' = apila
           ELSE IF EsTupla(t)
                THEN amodo' = "tupla" /\ aactual' = aactual /\ apila' = apila
                ELSE Retornar(t)
    /\ UNCHANGED <<atermino, asust, avuelta, aprimero, uvars, fvars, svars, hvars>>

\* Lines 43-48: one test of the while condition, with the body if it holds.
AplMientras ==
    /\ amodo = "while"
    /\ IF aactual \in DOMAIN asust
       THEN LET termino_nuevo == asust[aactual]
            IN  IF termino_nuevo = aactual
                THEN Retornar(aactual)
                ELSE aactual' = termino_nuevo /\ amodo' = amodo /\ apila' = apila
       ELSE Retornar(aactual)
    /\ UNCHANGED <<atermino, asust, avuelta, aprimero, uvars, fvars, svars, hvars>>

\* Line 50: the generator asks for the next element, or the tuple is built.
AplElemento ==
    /\ amodo = "tupla"
    /\ LET f == apila[Len(apila)]
       IN  IF f.k <= Len(Elems(f.termino))
           THEN /\ apila' = Append(apila, Llamada(Elems(f.termino)[f.k]))
                /\ amodo' = "llamada"
                /\ aactual' = aactual
           ELSE Retornar(Tup(f.listos))
    /\ UNCHANGED <<atermino, asust, avuelta, aprimero, uvars, fvars, svars, hvars>>

\* The caller applies the same dict to the result.
AplReaplicar ==
    /\ amodo = "fin" /\ avuelta = 1
    /\ aprimero' = aactual
    /\ apila' = <<Llamada(aactual)>>
    /\ amodo' = "llamada"
    /\ avuelta' = 2
    /\ UNCHANGED <<atermino, asust, aactual, uvars, fvars, svars, hvars>>

NextAplicar == AplEntrar \/ AplMientras \/ AplElemento \/ AplReaplicar

\* The interpreter always runs the next statement of a call in progress.
SpecAplicar == InitAplicar /\ [][NextAplicar]_vars /\ WF_vars(NextAplicar)

\* The statement-level run and the function agree where the function is
\* defined.
AplicarCoincide ==
    (amodo = "fin" /\ avuelta = 1 /\ SinCiclos(asust))
        => aactual = aplicar_sustituciones(atermino, asust)

\* C3: substitution application is idempotent: applying S to the result of
\* applying S to T gives that result again.
C3_AplicarIdempotente ==
    (amodo = "fin" /\ avuelta = 2) => aactual = aprimero

\* C4: aplicar_sustituciones terminates for every term and every
\* substitution.
C4_AplicarTermina == <>(amodo = "fin")

---------------------------------------------------------------------------
(* SpecFresca: regla_fresca called again and again on one counter *)

MaxLlamadas == 3

Regla(cabeza, cuerpo) == [cabeza |-> cabeza, cuerpo |-> cuerpo]

\* The bridge rule of knowledge_base.py, lines 49-53.
ReglaPuente ==
    Regla(Tup(<<Str("r", "equiere"), Str("T", "ramiteGenerico"), Str("R", "equisito")>>),
          <<Tup(<<Str("s", "ubtipo_de"), Str("T", "ramiteEspecifico"),
                  Str("T", "ramiteGenerico")>>),
            Tup(<<Str("r", "equiere"), Str("T", "ramiteEspecifico"),
                  Str("R", "equisito")>>)>>)

\* Rule 1 of knowledge_base.py, lines 17-21: its head holds a str that
\* starts with an uppercase letter.
ReglaLugar ==
    Regla(Tup(<<Str("l", "ugar_de_pago_fisico"), Str("T", "ramite"),
                Str("R", "ecaudacion de Rentas Ensenada")>>),
          <<Tup(<<Str("e", "s_tramite_valido"), Str("T", "ramite")>>),
            Tup(<<Str("p", "ago_no_disponible_en_linea"), Str("T", "ramite")>>)>>)

ReglasFrescas ==
    {ReglaPuente, ReglaLugar,
     \* a variable repeated in the head, nested in a compound of the body
     Regla(Tup(<<Str("p", ""), Str("X", ""), Str("X", "")>>),
           <<Tup(<<Str("q", ""), Tup(<<Str("f", ""), Str("X", "")>>), Str("Y", "")>>)>>),
     \* names one of which is the other followed by '_' and a number
     Regla(Tup(<<Str("p", ""), Str("X", ""), Str("X", "_1")>>),
           <<Tup(<<Str("q", ""), Str("X", "_1"), Str("_", "X_1")>>)>>),
     \* no variable at all, no body
     Regla(Tup(<<Str("p", ""), Str("a", ""), Num(100)>>), <<>>)}

InitFresca ==
    /\ fcontador = 0                          \* ContadorVariables.__init__
    /\ fllamadas = <<>>
    /\ ReposoU /\ ReposoA /\ ReposoS /\ ReposoH

LlamarReglaFresca ==
    /\ Len(fllamadas) < MaxLlamadas
    /\ \E regla \in ReglasFrescas :
          LET r == regla_fresca(regla, fcontador)
          IN  /\ fllamadas' = Append(fllamadas,
                    [regla |-> regla,
                     fresca |-> Regla(r.cabeza, r.cuerpo),
                     desde |-> fcontador, hasta |-> r.cont])
              /\ fcontador' = r.cont
    /\ UNCHANGED <<uvars, avars, svars, hvars>>

NextFresca == LlamarReglaFresca

SpecFresca == InitFresca /\ [][NextFresca]_vars

\* A rule as one term: its head followed by its body goals.
ComoTermino(regla) == Tup(<<regla.cabeza>> \o regla.cuerpo)

\* The copy has the shape of the original: constants in place, compounds
\* of the same length, a variable where there was a variable.
RECURSIVE MismaForma(_, _)
MismaForma(orig, copia) ==
    IF es_variable(orig) THEN es_variable(copia)
    ELSE IF EsTupla(orig)
         THEN /\ EsTupla(copia)
              /\ Len(Elems(copia)) = Len(Elems(orig))
              /\ \A k \in 1..Len(Elems(orig)) :
                    MismaForma(Elems(orig)[k], Elems(copia)[k])
         ELSE copia = orig

\* The pairs <<original variable, name that stands at its place in the copy>>.
RECURSIVE Pares(_, _)
Pares(orig, copia) ==
    IF es_variable(orig) THEN {<<orig, copia>>}
    ELSE IF EsTupla(orig)
         THEN UNION {Pares(Elems(orig)[k], Elems(copia)[k]) :
                        k \in 1..Len(Elems(orig))}
         ELSE {}

ParesDe(c) == Pares(ComoTermino(c.regla), ComoTermino(c.fresca))
NombresDe(c) == {par[2] : par \in ParesDe(c)}

\* C8: in the copy every occurrence of one original variable carries the
\* same fresh name, different original variables carry different fresh
\* names, and no fresh name of one call is a fresh name of another call on
\* the same counter.
C8_FrescasCompartenYSonUnicas ==
    \A i \in 1..Len(fllamadas) :
        LET c == fllamadas[i]
        IN  /\ MismaForma(ComoTermino(c.regla), ComoTermino(c.fresca))
            /\ \A a \in ParesDe(c), b \in ParesDe(c) : (a[1] = b[1]) <=> (a[2] = b[2])
            /\ \A j \in 1..Len(fllamadas) :
                  j # i => NombresDe(c) \cap NombresDe(fllamadas[j]) = {}

C8_Testigo ==
    /\ Len(fllamadas) = 3
    /\ fllamadas[1].regla = ReglaPuente /\ fllamadas[3].regla = ReglaPuente
    /\ fllamadas[1].fresca.cabeza =
          Tup(<<Str("r", "equiere"), Str("_", "TramiteGenerico_1"),
                Str("_", "Requisito_2")>>)
    /\ Elems(fllamadas[3].fresca.cuerpo[1])[3] = Elems(fllamadas[3].fresca.cabeza)[2]
    /\ fcontador > 6

\* The leaves of a term from left to right.
RECURSIVE Aplanar(_)
RECURSIVE AplanarLista(_)
Aplanar(t) == IF EsTupla(t) THEN AplanarLista(Elems(t)) ELSE <<t>>
AplanarLista(ts) ==
    IF ts = <<>> THEN <<>> ELSE Aplanar(Head(ts)) \o AplanarLista(Tail(ts))

\* A sequence without its repetitions, each element where it first stands.
RECURSIVE SinRepetir(_)
SinRepetir(sec) ==
    IF sec = <<>> THEN <<>>
    ELSE LET antes == SinRepetir(SubSeq(sec, 1, Len(sec) - 1))
             ultimo == sec[Len(sec)]
         IN  IF \E i \in 1..Len(antes) : antes[i] = ultimo
             THEN antes ELSE Append(antes, ultimo)

\* The distinct variables of a term in the order of their first occurrence.
VariablesEnOrden(t) == SinRepetir(SelectSeq(Aplanar(t), es_variable))

Posicion(sec, x) == CHOOSE i \in 1..Len(sec) : sec[i] = x

\* The term with its n-th distinct variable named '_', its name, '_' and
\* the number desde + n; everything else as it stands.
RECURSIVE Numerada(_, _, _)
Numerada(t, vs, desde) ==
    IF EsTupla(t)
    THEN Tup([k \in 1..Len(Elems(t)) |-> Numerada(Elems(t)[k], vs, desde)])
    ELSE IF es_variable(t)
         THEN <<"str", "_", t[2] \o t[3] \o "_" \o ToString(desde + Posicion(vs, t))>>
         ELSE t

\* C26: a call of regla_fresca on a rule with k distinct variables takes k
\* values from the counter, one for each distinct variable where it first
\* occurs (the head first, then the body goals from left to right), and
\* the fresh name is '_', the original name, '_' and that value; atoms are
\* copied as they are, compounds keep their length and order.
C26_UnNumeroPorVariable ==
    \A i \in 1..Len(fllamadas) :
        LET c == fllamadas[i]
            vs == VariablesEnOrden(ComoTermino(c.regla))
        IN  /\ c.hasta = c.desde + Len(vs)
            /\ Len(c.fresca.cuerpo) = Len(c.regla.cuerpo)
            /\ ComoTermino(c.fresca) = Numerada(ComoTermino(c.regla), vs, c.desde)
            /\ i > 1 => c.desde = fllamadas[i - 1].hasta
            /\ i = Len(fllamadas) => fcontador = c.hasta

\* p(X, X) :- q(f(X), Y) freshened after the bridge rule took 1, 2 and 3.
C26_Testigo ==
    /\ Len(fllamadas) >= 2
    /\ fllamadas[1].regla = ReglaPuente
    /\ fllamadas[2].desde = 3 /\ fllamadas[2].hasta = 5
    /\ fllamadas[2].fresca =
          Regla(Tup(<<Str("p", ""), Str("_", "X_4"), Str("_", "X_4")>>),
                <<Tup(<<Str("q", ""), Tup(<<Str("f", ""), Str("_", "X_4")>>),
                        Str("_", "Y_5")>>)>>)

---------------------------------------------------------------------------
(* Spec: sld_solve consuming the generator solve, over bounded knowledge
   bases and queries *)

MaxHechos == 2
MaxReglas == 2

\* The nesting of solve calls at which the interpreter gives up: the
\* recursion limit of Python (sys.getrecursionlimit(), 1000 by default, which
\* the program never changes), scaled down. No terminating search of the
\* bounded scenarios nests as deep.
MaxProfundidad == 7

SecuenciasHasta(S, n) == UNION {[1..k -> S] : k \in 0..n}

Atomo1(functor, x) == Tup(<<Str(functor, ""), x>>)
Atomo2(functor, x, y) == Tup(<<Str(functor, ""), x, y>>)

\* Scenarios 1 and 2 of the specification: es_tramite_valido(pasaporte).
KBValido ==
    [hechos |-> <<Tup(<<Str("e", "s_tramite_valido"), Str("p", "asaporte")>>)>>,
     reglas |-> <<>>]

\* Scenario 3: the bridge rule over requiere, with the facts of
\* knowledge_base.py it is made for.
KBPuente ==
    [hechos |-> <<Tup(<<Str("s", "ubtipo_de"), Str("a", "cta_nacimiento_existente"),
                        Str("a", "cta_nacimiento")>>),
                  Tup(<<Str("r", "equiere"), Str("a", "cta_nacimiento_existente"),
                        Str("C", "URP")>>)>>,
     reglas |-> <<Regla(Tup(<<Str("r", "equiere"), Str("G", ""), Str("R", "")>>),
                        <<Tup(<<Str("s", "ubtipo_de"), Str("E", ""), Str("G", "")>>),
                          Tup(<<Str("r", "equiere"), Str("E", ""), Str("R", "")>>)>>)>>]

\* Scenario 4: two costo facts.
KBCosto ==
    [hechos |-> <<Tup(<<Str("c", "osto"), Str("p", ""), Str("a", ""), Num(100)>>),
                  Tup(<<Str("c", "osto"), Str("p", ""), Str("b", ""), Num(200)>>)>>,
     reglas |-> <<>>]

\* A fact with a compound argument.
KBAnidado ==
    [hechos |-> <<Tup(<<Str("p", ""), Tup(<<Str("f", ""), Str("a", "")>>),
                        Str("b", "")>>)>>,
     reglas |-> <<>>]

QueryAnidada ==
    Tup(<<Str("p", ""), Tup(<<Str("f", ""), Str("X", "")>>), Str("Y", "")>>)

\* A fact and a rule whose body is its own head.
KBCiclo ==
    [hechos |-> <<Atomo1("p", Str("a", ""))>>,
     reglas |-> <<Regla(Atomo1("p", Str("X", "")), <<Atomo1("p", Str("X", ""))>>)>>]

\* A rule whose body is its own head, and no fact.
KBBucle ==
    [hechos |-> <<>>,
     reglas |-> <<Regla(Atomo1("p", Str("X", "")), <<Atomo1("p", Str("X", ""))>>)>>]

\* A fact that holds a variable, and a rule with two goals that meet it.
KBHechoAbierto ==
    [hechos |-> <<Atomo1("p", Str("V", ""))>>,
     reglas |-> <<Regla(Atomo2("t", Str("X", ""), Str("Y", "")),
                        <<Atomo1("p", Str("X", "")), Atomo1("p", Str("Y", ""))>>)>>]

EscenariosDados ==
    {[kb |-> KBBucle, query |-> Atomo1("p", Str("a", ""))],
     [kb |-> KBHechoAbierto, query |-> Atomo2("t", Str("a", ""), Str("b", ""))],
     [kb |-> KBHechoAbierto, query |-> Atomo2("t", Str("a", ""), Str("a", ""))],
     [kb |-> KBHechoAbierto, query |-> Atomo2("t", Str("a", ""), Str("V", ""))],
     [kb |-> KBValido,
      query |-> Tup(<<Str("e", "s_tramite_valido"), Str("p", "asaporte")>>)],
     [kb |-> KBValido,
      query |-> Tup(<<Str("e", "s_tramite_valido"), Str("l", "icencia")>>)],
     [kb |-> KBPuente,
      query |-> Tup(<<Str("r", "equiere"), Str("a", "cta_nacimiento"), Str("X", "")>>)],
     [kb |-> KBCosto,
      query |-> Tup(<<Str("c", "osto"), Str("p", ""), Str("D", "esc"), Str("M", "onto")>>)],
     [kb |-> KBAnidado, query |-> QueryAnidada],
     [kb |-> KBCiclo, query |-> Atomo1("p", Str("X", ""))]}

HechosF ==
    {Atomo1("p", Str("a", "")), Atomo1("p", Str("b", "")), Atomo1("q", Str("b", ""))}

ReglasF ==
    {Regla(Atomo2("t", Str("X", ""), Str("Y", "")),
           <<Atomo1("p", Str("X", "")), Atomo1("p", Str("Y", ""))>>),
     Regla(Atomo1("p", Str("X", "")), <<Atomo1("q", Str("X", ""))>>),
     Regla(Atomo2("t", Str("X", ""), Str("X", "")), <<Atomo1("q", Str("X", ""))>>)}

QueriesF ==
    {Atomo1("p", Str("X", "")), Atomo1("p", Str("b", "")),
     Atomo2("t", Str("Y", ""), Str("X", ""))}

Escenarios ==
    EscenariosDados \cup
    {[kb |-> [hechos |-> hs, reglas |-> rs], query |-> q] :
        hs \in SecuenciasHasta(HechosF, MaxHechos),
        rs \in SecuenciasHasta(ReglasF, MaxReglas),
        q \in QueriesF}

\* A suspended call solve(kb, lista_queries, sustituciones, ruta_derivacion,
\* contador): its arguments, where it stands, its loop index and the locals
\* of lines 143-148. `camino` is history: the candidates chosen from the
\* root down to this call, <<0, i>> for fact i and <<1, j>> for rule j.
Marco(lista_queries, sust, ruta, camino) ==
    [lista_queries |-> lista_queries,
     sustituciones |-> sust,
     ruta_derivacion |-> ruta,
     pc |-> "inicio",
     i |-> 1,
     queries_restantes |-> <<>>,
     query_sustituida |-> Tup(<<>>),
     camino |-> camino]

Cima == pila[Len(pila)]
PonerCima(marco) == [pila EXCEPT ![Len(pila)] = marco]

\* Lines 156 and 167: one entry of the derivation route.
Paso(query_sustituida, tipo, item) ==
    [query |-> query_sustituida, tipo |-> tipo, item |-> item]

Init ==
    /\ \E e \in Escenarios : kb = e.kb /\ query = e.query
    /\ pila = <<Marco(<<query>>, DictVacio, <<>>, <<>>)>>   \* line 187
    /\ contador = 0                                         \* line 181
    /\ soluciones = <<>>
    /\ intentos = <<>>
    /\ spc = "buscar"
    /\ pasos = 0
    /\ salida = <<>>
    /\ ReposoU /\ ReposoA /\ ReposoF /\ ReposoH

\* Mutant of SolveYield: the pair is yielded with an empty route.
SolveYield_sin_ruta ==
    /\ spc = "buscar" /\ pila # <<>>
    /\ Cima.pc = "inicio" /\ Cima.lista_queries = <<>>
    /\ pila' = PonerCima([Cima EXCEPT !.pc = "return", !.ruta_derivacion = <<>>])
    /\ spc' = "consumir"
    /\ pasos' = pasos + 1
    /\ UNCHANGED <<kb, query, salida, contador, soluciones, intentos, uvars, avars, fvars, hvars>>

\* Lines 138-139: no goal is left; the pair is yielded and the consumer
\* runs until it asks for the next one.
SolveYield ==
    /\ spc = "buscar" /\ pila # <<>>
    /\ Cima.pc = "inicio" /\ Cima.lista_queries = <<>>
    /\ pila' = PonerCima([Cima EXCEPT !.pc = "return"])
    /\ spc' = "consumir"
    /\ pasos' = pasos + 1
    /\ UNCHANGED <<kb, query, salida, contador, soluciones, intentos, uvars, avars, fvars, hvars>>

\* Line 191: the elements of the query tuple that are user variables.
variables_query(q) == SelectSeq(Elems(q), es_variable_usuario)

\* Lines 192-198: what is printed about one solution, "Verdadero" when
\* variables_query is empty, else one pair <<var, valor_final>> per variable.
Reporte(q, solucion) ==
    LET vs == variables_query(q)
    IN  IF vs = <<>>
        THEN [tipo |-> "Verdadero", pares |-> <<>>]
        ELSE [tipo |-> "Sustituciones",
              pares |-> [k \in 1..Len(vs) |->
                            <<vs[k], aplicar_sustituciones(vs[k], solucion)>>]]

\* Lines 187-203: the body of the for loop of sld_solve on the pair it
\* was given.
SldConsumir ==
    /\ spc = "consumir"
    /\ salida' = Append(salida, Reporte(query, Cima.sustituciones))
    /\ soluciones' = Append(soluciones,
            [sustituciones |-> Cima.sustituciones,
             ruta |-> Cima.ruta_derivacion,
             camino |-> Cima.camino])
    /\ spc' = "buscar"
    /\ pasos' = pasos + 1
    /\ UNCHANGED <<kb, query, pila, contador, intentos, uvars, avars, fvars, hvars>>

\* Lines 143-148: the first goal is selected and resolved.
SolveSeleccionar ==
    /\ spc = "buscar" /\ pila # <<>>
    /\ Cima.pc = "inicio" /\ Cima.lista_queries # <<>>
    /\ LET query_actual == Head(Cima.lista_queries)
       IN  pila' = PonerCima([Cima EXCEPT
                !.pc = "hechos", !.i = 1,
                !.queries_restantes = Tail(Cima.lista_queries),
                !.query_sustituida =
                    aplicar_sustituciones(query_actual, Cima.sustituciones)])
    /\ pasos' = pasos + 1
    /\ UNCHANGED <<kb, query, salida, contador, soluciones, intentos, spc, uvars, avars, fvars, hvars>>

\* Mutant of Intentar: the entry is appended to the caller's own route list
\* (ruta_derivacion.append(..)) and that list is handed on.
Intentar_ruta_en_sitio(clave, u, tipo, item, nuevas_queries) ==
    /\ intentos' = Append(intentos,
            [camino |-> Append(Cima.camino, clave), desde |-> Cima.sustituciones,
             ok |-> u.ok, hasta |-> u.subs, item |-> item])
    /\ IF u.error
       THEN pila' = pila /\ spc' = "error"
       ELSE /\ spc' = spc
            /\ IF u.ok
               THEN LET ruta == Append(Cima.ruta_derivacion,
                                       Paso(Cima.query_sustituida, tipo,
                                            IF tipo = "REGLA" THEN item.cabeza
                                            ELSE item))
                    IN  pila' = Append(PonerCima([Cima EXCEPT !.i = @ + 1,
                                                  !.ruta_derivacion = ruta]),
                                       Marco(nuevas_queries, u.subs, ruta,
                                             Append(Cima.camino, clave)))
               ELSE pila' = PonerCima([Cima EXCEPT !.i = @ + 1])

\* The outcome of trying one candidate from the call on top (a fact, or the
\* fresh copy of a rule): the candidate is logged, the loop index advances,
\* and on success the recursive call of line 157 or 170 is entered; a
\* RecursionError ends the whole query.
Intentar(clave, u, tipo, item, nuevas_queries) ==
    /\ intentos' = Append(intentos,
            [camino |-> Append(Cima.camino, clave), desde |-> Cima.sustituciones,
             ok |-> u.ok, hasta |-> u.subs, item |-> item])
    /\ IF u.error
       THEN pila' = pila /\ spc' = "error"
       ELSE /\ spc' = spc
            /\ IF u.ok
               THEN pila' = Append(PonerCima([Cima EXCEPT !.i = @ + 1]),
                        Marco(nuevas_queries, u.subs,
                              Append(Cima.ruta_derivacion,
                                     Paso(Cima.query_sustituida, tipo,
                                          IF tipo = "REGLA" THEN item.cabeza
                                          ELSE item)),
                              Append(Cima.camino, clave)))
               ELSE pila' = PonerCima([Cima EXCEPT !.i = @ + 1])

\* The fact at position pos is tried (lines 152-157).
IntentarHecho(pos) ==
    LET hechos == kb.hechos[pos]
    IN  Intentar(<<0, pos>>,
                 unificar(Cima.query_sustituida, hechos, Cima.sustituciones),
                 "HECHO", hechos, Cima.queries_restantes)

\* Mutant of SolveHecho: the facts are gone through from the last to the first.
SolveHecho_al_reves ==
    /\ spc = "buscar" /\ pila # <<>>
    /\ Cima.pc = "hechos" /\ Cima.i <= Len(kb.hechos)
    /\ Len(pila) < MaxProfundidad
    /\ IntentarHecho(Len(kb.hechos) + 1 - Cima.i)
    /\ pasos' = pasos + 1
    /\ UNCHANGED <<kb, query, salida, contador, soluciones, uvars, avars, fvars, hvars>>

\* Mutant of SolveHecho: the loop over the facts ends at the first match.
SolveHecho_primera ==
    /\ spc = "buscar" /\ pila # <<>>
    /\ Cima.pc = "hechos" /\ Cima.i <= Len(kb.hechos)
    /\ Len(pila) < MaxProfundidad
    /\ LET hechos == kb.hechos[Cima.i]
           u == unificar(Cima.query_sustituida, hechos, Cima.sustituciones)
       IN  /\ intentos' = Append(intentos,
                  [camino |-> Append(Cima.camino, <<0, Cima.i>>),
                   desde |-> Cima.sustituciones, ok |-> u.ok, hasta |-> u.subs,
                   item |-> hechos])
           /\ spc' = IF u.error THEN "error" ELSE spc
           /\ IF u.ok
              THEN pila' = Append(
                      PonerCima([Cima EXCEPT !.i = Len(kb.hechos) + 1]),
                      Marco(Cima.queries_restantes, u.subs,
                            Append(Cima.ruta_derivacion,
                                   Paso(Cima.query_sustituida, "HECHO", hechos)),
                            Append(Cima.camino, <<0, Cima.i>>)))
              ELSE pila' = PonerCima([Cima EXCEPT !.i = @ + 1])
    /\ pasos' = pasos + 1
    /\ UNCHANGED <<kb, query, salida, contador, soluciones, uvars, avars, fvars, hvars>>

\* Mutant of SolveHecho: the bindings of a matching fact are kept in the
\* caller's own substitution.
SolveHecho_compartida ==
    /\ spc = "buscar" /\ pila # <<>>
    /\ Cima.pc = "hechos" /\ Cima.i <= Len(kb.hechos)
    /\ Len(pila) < MaxProfundidad
    /\ LET hechos == kb.hechos[Cima.i]
           u == unificar(Cima.query_sustituida, hechos, Cima.sustituciones)
       IN  /\ intentos' = Append(intentos,
                  [camino |-> Append(Cima.camino, <<0, Cima.i>>),
                   desde |-> Cima.sustituciones, ok |-> u.ok, hasta |-> u.subs,
                   item |-> hechos])
           /\ spc' = IF u.error THEN "error" ELSE spc
           /\ IF u.ok
              THEN pila' = Append(
                      PonerCima([Cima EXCEPT !.i = @ + 1, !.sustituciones = u.subs]),
                      Marco(Cima.queries_restantes, u.subs,
                            Append(Cima.ruta_derivacion,
                                   Paso(Cima.query_sustituida, "HECHO", hechos)),
                            Append(Cima.camino, <<0, Cima.i>>)))
              ELSE pila' = PonerCima([Cima EXCEPT !.i = @ + 1])
    /\ pasos' = pasos + 1
    /\ UNCHANGED <<kb, query, salida, contador, soluciones, uvars, avars, fvars, hvars>>

\* Mutant of SolveHecho: when a fact matches, the fact after it is tried
\* at once, before the matching one is followed.
SolveHecho_adelantado ==
    /\ spc = "buscar" /\ pila # <<>>
    /\ Cima.pc = "hechos" /\ Cima.i <= Len(kb.hechos)
    /\ Len(pila) < MaxProfundidad
    /\ LET hechos == kb.hechos[Cima.i]
           u == unificar(Cima.query_sustituida, hechos, Cima.sustituciones)
           este == [camino |-> Append(Cima.camino, <<0, Cima.i>>),
                    desde |-> Cima.sustituciones, ok |-> u.ok, hasta |-> u.subs,
                    item |-> hechos]
           otro == unificar(Cima.query_sustituida, kb.hechos[Cima.i + 1],
                            Cima.sustituciones)
       IN  /\ intentos' =
                  IF u.ok /\ Cima.i < Len(kb.hechos)
                  THEN intentos \o
                       <<este, [camino |-> Append(Cima.camino, <<0, Cima.i + 1>>),
                                desde |-> Cima.sustituciones, ok |-> otro.ok,
                                hasta |-> otro.subs, item |-> kb.hechos[Cima.i + 1]]>>
                  ELSE Append(intentos, este)
           /\ spc' = IF u.error THEN "error" ELSE spc
           /\ IF u.ok
              THEN pila' = Append(
                      PonerCima([Cima EXCEPT !.i = @ + 1]),
                      Marco(Cima.queries_restantes, u.subs,
                            Append(Cima.ruta_derivacion,
                                   Paso(Cima.query_sustituida, "HECHO", hechos)),
                            Append(Cima.camino, <<0, Cima.i>>)))
              ELSE pila' = PonerCima([Cima EXCEPT !.i = @ + 1])
    /\ pasos' = pasos + 1
    /\ UNCHANGED <<kb, query, salida, contador, soluciones, uvars, avars, fvars, hvars>>

\* Mutant of SolveHecho: the fact is freshened as a rule is before it is
\* unified.
SolveHecho_fresco ==
    /\ spc = "buscar" /\ pila # <<>>
    /\ Cima.pc = "hechos" /\ Cima.i <= Len(kb.hechos)
    /\ Len(pila) < MaxProfundidad
    /\ LET fresco == regla_fresca(Regla(kb.hechos[Cima.i], <<>>), contador)
       IN  /\ contador' = fresco.cont
           /\ Intentar(<<0, Cima.i>>,
                       unificar(Cima.query_sustituida, fresco.cabeza,
                                Cima.sustituciones),
                       "HECHO", fresco.cabeza, Cima.queries_restantes)
    /\ pasos' = pasos + 1
    /\ UNCHANGED <<kb, query, salida, soluciones, uvars, avars, fvars, hvars>>

\* Lines 151-157: one iteration of the loop over kb['hechos'].
SolveHecho ==
    /\ spc = "buscar" /\ pila # <<>>
    /\ Cima.pc = "hechos" /\ Cima.i <= Len(kb.hechos)
    /\ Len(pila) < MaxProfundidad
    /\ IntentarHecho(Cima.i)
    /\ pasos' = pasos + 1
    /\ UNCHANGED <<kb, query, salida, contador, soluciones, uvars, avars, fvars, hvars>>

\* Line 151 to line 160: the loop over the facts is over, the loop over the
\* rules begins.
SolveHechosFin ==
    /\ spc = "buscar" /\ pila # <<>>
    /\ Cima.pc = "hechos" /\ Cima.i > Len(kb.hechos)
    /\ pila' = PonerCima([Cima EXCEPT !.pc = "reglas", !.i = 1])
    /\ pasos' = pasos + 1
    /\ UNCHANGED <<kb, query, salida, contador, soluciones, intentos, spc, uvars, avars, fvars, hvars>>

\* Mutant of SolveRegla: the goals that were pending come before the body
\* of the rule.
SolveRegla_resto_primero ==
    /\ spc = "buscar" /\ pila # <<>>
    /\ Cima.pc = "reglas" /\ Cima.i <= Len(kb.reglas)
    /\ Len(pila) < MaxProfundidad
    /\ LET regla_f == regla_fresca(kb.reglas[Cima.i], contador)
       IN  /\ contador' = regla_f.cont
           /\ Intentar(<<1, Cima.i>>,
                       unificar(Cima.query_sustituida, regla_f.cabeza,
                                Cima.sustituciones),
                       "REGLA", Regla(regla_f.cabeza, regla_f.cuerpo),
                       Cima.queries_restantes \o regla_f.cuerpo)
    /\ pasos' = pasos + 1
    /\ UNCHANGED <<kb, query, salida, soluciones, uvars, avars, fvars, hvars>>

\* Lines 160-170: one iteration of the loop over kb['reglas'].
SolveRegla ==
    /\ spc = "buscar" /\ pila # <<>>
    /\ Cima.pc = "reglas" /\ Cima.i <= Len(kb.reglas)
    /\ Len(pila) < MaxProfundidad
    /\ LET regla_f == regla_fresca(kb.reglas[Cima.i], contador)
       IN  /\ contador' = regla_f.cont
           /\ Intentar(<<1, Cima.i>>,
                       unificar(Cima.query_sustituida, regla_f.cabeza,
                                Cima.sustituciones),
                       "REGLA", Regla(regla_f.cabeza, regla_f.cuerpo),
                       regla_f.cuerpo \o Cima.queries_restantes)
    /\ pasos' = pasos + 1
    /\ UNCHANGED <<kb, query, salida, soluciones, uvars, avars, fvars, hvars>>

\* Lines 152-170 at the recursion limit: the calls a further candidate needs
\* exceed it, RecursionError is raised and, caught nowhere in solve or
\* sld_solve, ends the query.
SolveDesborda ==
    /\ spc = "buscar" /\ pila # <<>>
    /\ Len(pila) >= MaxProfundidad
    /\ \/ Cima.pc = "hechos" /\ Cima.i <= Len(kb.hechos)
       \/ Cima.pc = "reglas" /\ Cima.i <= Len(kb.reglas)
    /\ spc' = "error"
    /\ pasos' = pasos + 1
    /\ UNCHANGED <<kb, query, pila, salida, contador, soluciones, intentos, uvars, avars, fvars, hvars>>

\* Line 140, or the end of the loop over the rules: the generator is
\* exhausted and the call that ran it goes on.
SolveReturn ==
    /\ spc = "buscar" /\ pila # <<>>
    /\ \/ Cima.pc = "return"
       \/ Cima.pc = "reglas" /\ Cima.i > Len(kb.reglas)
    /\ pila' = SubSeq(pila, 1, Len(pila) - 1)
    /\ pasos' = pasos + 1
    /\ UNCHANGED <<kb, query, salida, contador, soluciones, intentos, spc, uvars, avars, fvars, hvars>>

\* Mutant of SldFin: "Falso" is printed whatever was found.
SldFin_siempre_falso ==
    /\ spc = "buscar" /\ pila = <<>>
    /\ spc' = "fin"
    /\ salida' = Append(salida, [tipo |-> "Falso", pares |-> <<>>])
    /\ pasos' = pasos + 1
    /\ UNCHANGED <<kb, query, pila, contador, soluciones, intentos, uvars, avars, fvars, hvars>>

\* Lines 205-207: the for loop of sld_solve ends when the outermost
\* generator is exhausted.
SldFin ==
    /\ spc = "buscar" /\ pila = <<>>
    /\ spc' = "fin"
    /\ salida' = IF Len(soluciones) = 0           \* soluciones_encontradas == 0
                 THEN Append(salida, [tipo |-> "Falso", pares |-> <<>>])
                 ELSE salida
    /\ pasos' = pasos + 1
    /\ UNCHANGED <<kb, query, pila, contador, soluciones, intentos, uvars, avars, fvars, hvars>>

Next ==
    \/ SolveYield \/ SldConsumir \/ SolveSeleccionar \/ SolveHecho
    \/ SolveHechosFin \/ SolveRegla \/ SolveDesborda \/ SolveReturn \/ SldFin

Spec == Init /\ [][Next]_vars

\* Some step of sld_solve or solve can be taken that raises no error.
PuedeSeguir ==
    \/ spc = "consumir"
    \/ /\ spc = "buscar"
       /\ \/ pila = <<>>
          \/ Cima.pc \in {"inicio", "return"}
          \/ Cima.pc = "hechos" /\ Cima.i > Len(kb.hechos)
          \/ Cima.pc = "reglas" /\ Cima.i > Len(kb.reglas)
          \/ Len(pila) < MaxProfundidad

---------------------------------------------------------------------------
(* SpecSesion: BackendLegal, its session facts and its queries *)

MaxConsultas == 2
MaxObjetos == 7

\* A part of KB_LEGALMENTE: the two residence rules (lines 23-31), the
\* bridge rule (lines 49-53) and four of the facts.
KB_LEGALMENTE ==
    [reglas |->
        <<Regla(Tup(<<Str("e", "s_apto_para_tramite"), Str("P", "ersona"),
                      Str("T", "ramite")>>),
                <<Tup(<<Str("n", "o_requiere_residencia_local"), Str("T", "ramite")>>)>>),
          Regla(Tup(<<Str("e", "s_apto_para_tramite"), Str("P", "ersona"),
                      Str("T", "ramite")>>),
                <<Tup(<<Str("r", "equiere_residencia_local"), Str("T", "ramite")>>),
                  Tup(<<Str("r", "eside_en_ensenada"), Str("P", "ersona")>>)>>),
          ReglaPuente>>,
     hechos |->
        <<Tup(<<Str("s", "ubtipo_de"), Str("a", "cta_nacimiento_existente"),
                Str("a", "cta_nacimiento")>>),
          Tup(<<Str("r", "equiere_residencia_local"), Str("e", "xpedicion_licencia")>>),
          Tup(<<Str("n", "o_requiere_residencia_local"), Str("a", "cta_nacimiento")>>),
          Tup(<<Str("r", "equiere"), Str("a", "cta_nacimiento_existente"),
                Str("C", "URP")>>)>>]

\* main.py, lines 399-402: the list the session facts are set to.
HechosDeSesion(residente) ==
    IF residente
    THEN <<Tup(<<Str("r", "eside_en_ensenada"), Str("u", "suario_actual")>>)>>
    ELSE <<>>

Tramites == {Str("a", "cta_nacimiento"), Str("u", "suario_actual")}
Predicados == {Str("r", "equiere"), Str("c", "osto"), Str("e", "s_apto_para_tramite")}

\* BackendLegal.__init__: KB_BASE is a shallow copy of KB_LEGALMENTE, so it
\* refers to the very lists of the module; HECHOS_SESION is a new empty list.
InitSesion ==
    /\ objetos = <<KB_LEGALMENTE.hechos, KB_LEGALMENTE.reglas, <<>>>>
    /\ KB_BASE = [hechos |-> 1, reglas |-> 2]
    /\ HECHOS_SESION = 3
    /\ kb_actual = [hechos |-> 0, reglas |-> 0]
    /\ previas = <<>>
    /\ raw = <<>>
    /\ ReposoU /\ ReposoA /\ ReposoF /\ ReposoS

\* consultar_motor_real has not returned yet.
Pendiente == <<"pendiente">>

\* No call of consultar_motor_real is under way.
EnReposo == spc = "reposo" \/ (spc \in {"fin", "error"} /\ raw # Pendiente)

\* main.py, lines 399-402: HECHOS_SESION is set to a new list.
FijarSesion ==
    /\ EnReposo /\ Len(objetos) < MaxObjetos
    /\ \E residente \in BOOLEAN :
          /\ HechosDeSesion(residente) # objetos[HECHOS_SESION]
          /\ objetos' = Append(objetos, HechosDeSesion(residente))
    /\ HECHOS_SESION' = Len(objetos) + 1
    /\ UNCHANGED <<KB_BASE, kb_actual, previas, raw, uvars, avars, fvars, svars>>

\* A list of session facts as a client of the class can set it (the
\* docstring of BackendLegal assigns backend.HECHOS_SESION directly): a
\* subtipo_de fact that closes a cycle with a fact of the base.
SesionCiclo ==
    <<Tup(<<Str("s", "ubtipo_de"), Str("a", "cta_nacimiento"),
            Str("a", "cta_nacimiento_existente")>>)>>

\* sistema.py, line 62: HECHOS_SESION is assigned by the client.
FijarSesionCliente ==
    /\ EnReposo /\ Len(objetos) < MaxObjetos
    /\ objetos[HECHOS_SESION] # SesionCiclo
    /\ objetos' = Append(objetos, SesionCiclo)
    /\ HECHOS_SESION' = Len(objetos) + 1
    /\ UNCHANGED <<KB_BASE, kb_actual, previas, raw, uvars, avars, fvars, svars>>

\* Lines 352-360 of sistema.py: the query built from the predicate.
QueryDe(tramite, predicado, variable_buscada) ==
    IF predicado = Str("c", "osto")
    THEN Tup(<<Str("c", "osto"), tramite, Str("D", "escripcion"), Str("M", "onto")>>)
    ELSE IF predicado = Str("r", "equiere")
    THEN Tup(<<Str("r", "equiere"), tramite, Str("R", "equisito")>>)
    ELSE Tup(<<predicado, tramite, variable_buscada>>)

\* The knowledge base sld_solve reads through a dict of list references.
Leer(d) == [hechos |-> objetos[d.hechos], reglas |-> objetos[d.reglas]]

\* The call that has ended, as the caller saw it.
Terminada ==
    [kb |-> kb, query |-> query, soluciones |-> soluciones,
     intentos |-> intentos, contador |-> contador, salida |-> salida]

\* What a call that begins leaves in the history: the call before it, when
\* there was one.
ConPrevia ==
    IF spc \in {"fin", "error"} THEN Append(previas, Terminada) ELSE previas

\* Mutant of EntrarSldSolve: the counter of the call before is kept.
EntrarSldSolve_mismo_contador(k, q) ==
    /\ kb' = k /\ query' = q
    /\ pila' = <<Marco(<<q>>, DictVacio, <<>>, <<>>)>>
    /\ contador' = contador
    /\ soluciones' = <<>> /\ intentos' = <<>> /\ salida' = <<>>
    /\ spc' = "buscar" /\ pasos' = 0
    /\ previas' = ConPrevia

\* Lines 173-187 of motor_inferencia.py, entered from sistema.py line 369.
EntrarSldSolve(k, q) ==
    /\ kb' = k /\ query' = q
    /\ pila' = <<Marco(<<q>>, DictVacio, <<>>, <<>>)>>
    /\ contador' = 0
    /\ soluciones' = <<>> /\ intentos' = <<>> /\ salida' = <<>>
    /\ spc' = "buscar" /\ pasos' = 0
    /\ previas' = ConPrevia

\* Mutant of consultar_motor_real: the session facts are added to the list
\* of the base in place (kb_actual['hechos'] += HECHOS_SESION).
consultar_motor_real_en_sitio ==
    /\ EnReposo /\ Len(ConPrevia) < MaxConsultas /\ Len(objetos) < MaxObjetos
    /\ kb_actual' = KB_BASE
    /\ objetos' = [objetos EXCEPT ![KB_BASE.hechos] = @ \o objetos[HECHOS_SESION]]
    /\ \E tramite \in Tramites, predicado \in Predicados :
          EntrarSldSolve([hechos |-> objetos'[kb_actual'.hechos],
                          reglas |-> objetos'[kb_actual'.reglas]],
                         QueryDe(tramite, predicado, Str("D", "ato")))
    /\ raw' = Pendiente
    /\ UNCHANGED <<KB_BASE, HECHOS_SESION, uvars, avars, fvars>>

\* sistema.py, lines 347-368: kb_actual is a shallow copy of KB_BASE whose
\* 'hechos' is a new list, the base facts followed by the session facts;
\* the query is built and sld_solve is called.
consultar_motor_real ==
    /\ EnReposo /\ Len(ConPrevia) < MaxConsultas /\ Len(objetos) < MaxObjetos
    /\ objetos' = Append(objetos, objetos[KB_BASE.hechos] \o objetos[HECHOS_SESION])
    /\ kb_actual' = [KB_BASE EXCEPT !.hechos = Len(objetos) + 1]
    /\ \E tramite \in Tramites, predicado \in Predicados :
          EntrarSldSolve([hechos |-> objetos'[kb_actual'.hechos],
                          reglas |-> objetos'[kb_actual'.reglas]],
                         QueryDe(tramite, predicado, Str("D", "ato")))
    /\ raw' = Pendiente
    /\ UNCHANGED <<KB_BASE, HECHOS_SESION, uvars, avars, fvars>>

\* Line 178, captured with everything else sld_solve prints.
Encabezado == [tipo |-> "Iniciando consulta", pares |-> <<>>]

\* f.getvalue(): what sld_solve has printed since it was called.
Capturado == <<Encabezado>> \o salida

\* Mutant of consultar_motor_real_retorno: the except clause returns what
\* was captured before the error (raw = f.getvalue()).
consultar_motor_real_retorno_parcial ==
    /\ spc \in {"fin", "error"} /\ raw = Pendiente
    /\ raw' = Capturado
    /\ UNCHANGED <<objetos, KB_BASE, HECHOS_SESION, kb_actual, previas,
                   uvars, avars, fvars, svars>>

\* sistema.py, lines 369-375: sld_solve has returned and raw is the captured
\* output, or it has raised and the bare except makes raw the empty string;
\* raw is returned.
consultar_motor_real_retorno ==
    /\ spc \in {"fin", "error"} /\ raw = Pendiente
    /\ raw' = IF spc = "fin" THEN Capturado ELSE <<>>
    /\ UNCHANGED <<objetos, KB_BASE, HECHOS_SESION, kb_actual, previas,
                   uvars, avars, fvars, svars>>

NextSesion ==
    \/ Next \/ FijarSesion \/ FijarSesionCliente
    \/ consultar_motor_real \/ consultar_motor_real_retorno

SpecSesion == InitSesion /\ [][NextSesion]_vars

\* The lists and references of the backend are, after a step, what they
\* were before it.
BackendIgual ==
    /\ KB_BASE' = KB_BASE /\ HECHOS_SESION' = HECHOS_SESION
    /\ objetos'[KB_BASE.hechos] = objetos[KB_BASE.hechos]
    /\ objetos'[KB_BASE.reglas] = objetos[KB_BASE.reglas]
    /\ objetos'[HECHOS_SESION] = objetos[HECHOS_SESION]

\* C27: consultar_motor_real lets no failure of the engine through: when
\* sld_solve raises, whatever it had printed, the call returns the empty
\* string; when it returns, the call returns all that was captured; and
\* from the call to the return KB_BASE and HECHOS_SESION stay as they were.
C27_FalloDevuelveVacio ==
    /\ []((spc = "error" /\ raw # Pendiente) => raw = <<>>)
    /\ []((spc = "fin" /\ raw # Pendiente) => (raw = Capturado /\ raw # <<>>))
    /\ [][(raw = Pendiente /\ spc = "error") => raw' = <<>>]_vars
    /\ [][(raw = Pendiente \/ raw' = Pendiente) => BackendIgual]_vars

\* sld_solve raised after a solution was printed, and the call has
\* returned the empty string.
C27_Testigo ==
    /\ spc = "error" /\ raw = <<>>
    /\ Len(soluciones) >= 1 /\ Len(salida) >= 1
    /\ objetos[HECHOS_SESION] = SesionCiclo
    /\ Leer(KB_BASE) = KB_LEGALMENTE


---------------------------------------------------------------------------
(* SpecPermutada: sld_solve called on a knowledge base, and then once more
   on the same facts and rules in another order *)

MaxPermutados == 2

Biyecciones(n) ==
    {f \in [1..n -> 1..n] : \A i \in 1..n, j \in 1..n : f[i] = f[j] => i = j}

Permutadas(sec) ==
    {[i \in 1..Len(sec) |-> sec[f[i]]] : f \in Biyecciones(Len(sec))}

ReglasP ==
    ReglasF \cup
    {Regla(Atomo2("r", Str("X", ""), Str("Y", "")), <<Atomo1("q", Str("X", ""))>>)}

QueriesP == QueriesF \cup {Atomo2("r", Str("Y", ""), Str("X", ""))}

EscenariosPermutada ==
    {[kb |-> [hechos |-> hs, reglas |-> rs], query |-> q] :
        hs \in SecuenciasHasta(HechosF, MaxPermutados),
        rs \in SecuenciasHasta(ReglasP, MaxPermutados),
        q \in QueriesP}
    \cup {[kb |-> KBCiclo, query |-> Atomo1("p", Str("X", ""))]}

InitPermutada ==
    /\ \E e \in EscenariosPermutada : kb = e.kb /\ query = e.query
    /\ pila = <<Marco(<<query>>, DictVacio, <<>>, <<>>)>>
    /\ contador = 0
    /\ soluciones = <<>> /\ intentos = <<>> /\ salida = <<>>
    /\ spc = "buscar" /\ pasos = 0
    /\ ReposoU /\ ReposoA /\ ReposoF /\ ReposoH

\* The first call has returned; the same query is asked of the same facts
\* and rules, declared in another order.
ConsultaPermutada ==
    /\ spc = "fin" /\ previas = <<>>
    /\ \E hs \in Permutadas(kb.hechos), rs \in Permutadas(kb.reglas) :
          /\ [hechos |-> hs, reglas |-> rs] # kb
          /\ EntrarSldSolve([hechos |-> hs, reglas |-> rs], query)
    /\ UNCHANGED <<objetos, KB_BASE, HECHOS_SESION, kb_actual, raw, uvars, avars, fvars>>

NextPermutada == Next \/ ConsultaPermutada

SpecPermutada == InitPermutada /\ [][NextPermutada]_vars

\* What the solutions of a call bound the user variables of the query to.
Respuestas(sal) == {sal[k].pares : k \in {j \in 1..Len(sal) : sal[j].tipo # "Falso"}}

\* C11: the order of the facts and of the rules changes only the order of
\* the solutions: the same query on a permuted knowledge base gives the
\* same set of bindings of the query's user variables.
C11_OrdenNoCambiaSoluciones ==
    (spc = "fin" /\ Len(previas) = 1)
        => Respuestas(salida) = Respuestas(previas[1].salida)

---------------------------------------------------------------------------
(* SpecPuente: the bridge rule over every set of subtipo_de facts between
   three procedures *)

TramitesPuente ==
    <<Str("a", "cta_nacimiento"), Str("a", "cta_nacimiento_existente"),
      Str("a", "cta_nacimiento_recien_nacido")>>

\* The pairs <<specific, generic>> a subtipo_de fact can relate, in the
\* order in which the facts are declared.
ParesPuente ==
    <<<<2, 1>>, <<3, 1>>, <<1, 2>>, <<3, 2>>, <<1, 3>>, <<2, 3>>>>

SubtipoDe(par) ==
    Tup(<<Str("s", "ubtipo_de"), TramitesPuente[par[1]], TramitesPuente[par[2]]>>)

Requiere(n) ==
    Tup(<<Str("r", "equiere"), TramitesPuente[n], Str("d", "ocumento_" \o ToString(n))>>)

\* The facts of a scenario: the subtipo_de facts of the relation, then one
\* requiere fact for each procedure of `con`.
HechosPuente(relacion, con) ==
    LET pares == SelectSeq(ParesPuente, LAMBDA par : par \in relacion)
        propios == SelectSeq(<<1, 2, 3>>, LAMBDA n : n \in con)
    IN  [k \in 1..Len(pares) |-> SubtipoDe(pares[k])] \o
        [k \in 1..Len(propios) |-> Requiere(propios[k])]

InitPuente ==
    /\ \E relacion \in SUBSET {ParesPuente[k] : k \in 1..Len(ParesPuente)},
          con \in SUBSET {1, 2, 3}, n \in {1, 2, 3} :
          /\ kb = [hechos |-> HechosPuente(relacion, con), reglas |-> <<ReglaPuente>>]
          /\ query = Tup(<<Str("r", "equiere"), TramitesPuente[n], Str("R", "equisito")>>)
    /\ pila = <<Marco(<<query>>, DictVacio, <<>>, <<>>)>>
    /\ contador = 0
    /\ soluciones = <<>> /\ intentos = <<>> /\ salida = <<>>
    /\ spc = "buscar" /\ pasos = 0
    /\ ReposoU /\ ReposoA /\ ReposoF /\ ReposoH

SpecPuente == InitPuente /\ [][Next]_vars

\* The pairs <<specific, generic>> of the subtipo_de facts of a list of facts.
SubtiposEn(hs) ==
    {<<Elems(hs[k])[2], Elems(hs[k])[3]>> :
        k \in {j \in 1..Len(hs) : Elems(hs[j])[1] = Str("s", "ubtipo_de")}}

\* y is reached from x by a chain of at most n pairs of rel, n > 0.
RECURSIVE Alcanza(_, _, _, _)
Alcanza(x, y, rel, n) ==
    \/ <<x, y>> \in rel
    \/ n > 1 /\ \E par \in rel : par[1] = x /\ Alcanza(par[2], y, rel, n - 1)

\* No chain of subtipo_de facts leads from a procedure back to itself.
Aciclica(rel) ==
    \A par \in rel : ~Alcanza(par[1], par[1], rel, Cardinality(rel))

---------------------------------------------------------------------------
(* What sld_solve reports *)

VariablesUsuario(t) == {v \in VariablesDe(t) : es_variable_usuario(v)}

\* C12: for each solution sld_solve reports, for every user variable that
\* appears in the query at any position or depth, the value
\* aplicar_sustituciones gives it under the solution.
C12_ReportaCadaVariable ==
    \A k \in 1..Len(soluciones) :
        \A v \in VariablesUsuario(query) :
            \E j \in 1..Len(salida[k].pares) :
                salida[k].pares[j] =
                    <<v, aplicar_sustituciones(v, soluciones[k].sustituciones)>>

Falso == [tipo |-> "Falso", pares |-> <<>>]
Verdadero == [tipo |-> "Verdadero", pares |-> <<>>]

\* C13: for a query without user variables, sld_solve prints "Verdadero"
\* once per solution and nothing else while there is one, and prints
\* "Falso" exactly when the search is exhausted with no solution, which
\* is a normal end of the call and not an error.
C13_VerdaderoOFalso ==
    VariablesUsuario(query) = {} =>
        /\ spc # "fin" => salida = [k \in 1..Len(soluciones) |-> Verdadero]
        /\ (spc = "fin" /\ Len(soluciones) > 0) =>
              salida = [k \in 1..Len(soluciones) |-> Verdadero]
        /\ (spc = "fin" /\ Len(soluciones) = 0) => salida = <<Falso>>
        /\ (pila = <<>> /\ soluciones = <<>>) => spc \in {"buscar", "fin"}

C13_Testigo ==
    /\ VariablesUsuario(query) = {} /\ spc = "fin"
    /\ kb.hechos # <<>> /\ kb.reglas # <<>>
    /\ \E k \in 1..Len(intentos) : intentos[k].ok
    /\ soluciones = <<>> /\ salida = <<Falso>>

---------------------------------------------------------------------------
(* The counter of a query *)

\* The attempts of the log that freshened a rule, in the order made.
IntentosDeRegla == SelectSeq(intentos, LAMBDA a : a.camino[Len(a.camino)][1] = 1)

\* The rule an attempt freshened.
ReglaDe(a) == kb.reglas[a.camino[Len(a.camino)][2]]

\* The values of siguiente() that the names of a fresh rule were built from.
NumerosDe(a) ==
    LET originales == VariablesDe(ComoTermino(ReglaDe(a)))
        frescas == VariablesDe(ComoTermino(a.item))
    IN  {n \in 1..contador : \E v \in originales : NombreFresco(v, n) \in frescas}

\* Every name of the fresh rule is built from a variable of the rule and a
\* value of the counter, one value per variable.
BienNumerada(a) ==
    LET originales == VariablesDe(ComoTermino(ReglaDe(a)))
        frescas == VariablesDe(ComoTermino(a.item))
        numeros == NumerosDe(a)
    IN  /\ \A w \in frescas : \E n \in numeros, v \in originales : w = NombreFresco(v, n)
        /\ Cardinality(numeros) = Cardinality(originales)

ContadorCreciente ==
    LET rs == IntentosDeRegla
    IN  /\ pasos = 0 => contador = 0
        /\ \A i \in 1..Len(rs) :
              LET numeros == NumerosDe(rs[i])
              IN  /\ BienNumerada(rs[i])
                  /\ \A j \in 1..(i - 1) :
                        \A m \in NumerosDe(rs[j]), n \in numeros : m < n
        /\ UNION {NumerosDe(rs[i]) : i \in 1..Len(rs)} = 1..contador

\* C14: within one call of sld_solve every value siguiente() returns is
\* greater than all it returned before (the numbers in the fresh names go
\* 1, 2, 3, .. in the order the rules were freshened), the counter never
\* goes down while the search is under way, and every call of sld_solve
\* begins with a counter of its own at 0.
C14_ContadorMonotono ==
    /\ []ContadorCreciente
    /\ [][IF pasos' = 0 THEN contador' = 0 ELSE contador' >= contador]_vars

C14_Testigo ==
    /\ Len(previas) = 1 /\ previas[1].contador >= 5
    /\ spc = "buscar" /\ Len(IntentosDeRegla) >= 2 /\ contador >= 5
    /\ contador < previas[1].contador

---------------------------------------------------------------------------
(* The knowledge base of the backend *)

\* C15: the base is never mutated: after any queries and changes of the
\* session facts, the lists KB_BASE refers to hold the facts and rules
\* they held at start-up; each query gets its facts in a list of its own,
\* the base facts followed by the session facts, and the lists a query was
\* given hold, during and after the search, what they held when it began.
C15_BaseIntacta ==
    /\ KB_BASE = [hechos |-> 1, reglas |-> 2]
    /\ Leer(KB_BASE) = KB_LEGALMENTE
    /\ spc # "reposo" =>
          /\ kb_actual.hechos \notin {KB_BASE.hechos, HECHOS_SESION}
          /\ kb_actual.reglas = KB_BASE.reglas
          /\ Leer(kb_actual) = kb
          /\ kb.reglas = KB_LEGALMENTE.reglas
          /\ \E sesion \in {HechosDeSesion(TRUE), HechosDeSesion(FALSE), SesionCiclo} :
                kb.hechos = KB_LEGALMENTE.hechos \o sesion

C15_Testigo ==
    /\ spc = "fin" /\ Len(previas) = 1
    /\ kb.hechos = KB_LEGALMENTE.hechos \o HechosDeSesion(TRUE)
    /\ previas[1].kb.hechos = KB_LEGALMENTE.hechos
    /\ objetos[HECHOS_SESION] = <<>>
    /\ contador > 0 /\ soluciones # <<>>

---------------------------------------------------------------------------
(* The same query asked twice *)

\* C19: a query is deterministic: a call of sld_solve on a knowledge base
\* and a query that an earlier call was given ends with the same solutions
\* in the same order, with the same bindings, fresh names and routes, after
\* trying the same candidates.
C19_MismaConsultaMismoResultado ==
    \A j \in 1..Len(previas) :
        (spc = "fin" /\ previas[j].kb = kb /\ previas[j].query = query)
            => previas[j] = Terminada

C19_Testigo ==
    /\ spc = "fin" /\ Len(previas) = 1
    /\ previas[1].kb = kb /\ previas[1].query = query
    /\ objetos[kb_actual.hechos] # objetos[KB_BASE.hechos]
    /\ Len(soluciones) >= 2 /\ contador > 0
    /\ \E k \in 1..Len(soluciones) : Len(soluciones[k].ruta) >= 3

---------------------------------------------------------------------------
(* The order of the search tree *)

ClaveAntes(x, y) == x[1] < y[1] \/ (x[1] = y[1] /\ x[2] < y[2])

\* Depth first, left to right: a node comes before its descendants, and
\* the subtree of a candidate before the subtree of every later candidate
\* of the same goal, facts (0) before rules (1).
RECURSIVE Antes(_, _)
Antes(a, b) ==
    IF a = <<>> THEN b # <<>>
    ELSE IF b = <<>> THEN FALSE
    ELSE IF Head(a) = Head(b) THEN Antes(Tail(a), Tail(b))
    ELSE ClaveAntes(Head(a), Head(b))

Padre(camino) == SubSeq(camino, 1, Len(camino) - 1)

\* C5: candidates are tried, and solutions yielded, in depth-first,
\* left-to-right order: everything under the i-th fact before anything
\* under a later fact, every fact before any rule, each in declared order.
C5_OrdenEnProfundidad ==
    /\ \A i \in 1..Len(intentos), j \in 1..Len(intentos) :
          i < j => Antes(intentos[i].camino, intentos[j].camino)
    /\ \A i \in 1..Len(soluciones), j \in 1..Len(soluciones) :
          i < j => Antes(soluciones[i].camino, soluciones[j].camino)
    /\ \A i \in 1..Len(soluciones) :
          \E k \in 1..Len(intentos) :
             intentos[k].camino = soluciones[i].camino /\ intentos[k].ok

C5_Testigo ==
    /\ spc = "fin" /\ Len(soluciones) >= 4
    /\ \E i \in 1..Len(soluciones), j \in 1..Len(soluciones) :
          /\ i + 1 < j
          /\ Len(soluciones[i].camino) = 3 /\ Len(soluciones[j].camino) = 3
          /\ soluciones[i].camino[1] = soluciones[j].camino[1]
          /\ soluciones[i].camino[2] = <<0, 1>>
          /\ soluciones[j].camino[2] = <<0, 2>>
    /\ \E k \in 1..Len(intentos) :
          /\ Len(intentos[k].camino) = 3
          /\ intentos[k].camino[2] = <<0, 1>>
          /\ intentos[k].camino[3][1] = 1
          /\ intentos[k].ok

\* C18: the sequence of solutions is lazy. When a solution is in the hands
\* of the consumer, the last candidate tried is the one that completed it
\* and no candidate that comes after it in the traversal has been tried or
\* freshened; and until the consumer asks for the next solution the
\* generator tries nothing, so a consumer that stops there causes no more
\* unification or freshening, however long the rest of the search is.
C18_Perezosa ==
    /\ [](spc = "consumir" =>
            /\ intentos # <<>>
            /\ intentos[Len(intentos)].camino = Cima.camino
            /\ intentos[Len(intentos)].ok
            /\ \A k \in 1..(Len(intentos) - 1) :
                  Antes(intentos[k].camino, Cima.camino))
    /\ [][spc = "consumir" =>
            /\ intentos' = intentos /\ contador' = contador /\ pila' = pila
            /\ soluciones' = Append(soluciones,
                    [sustituciones |-> Cima.sustituciones,
                     ruta |-> Cima.ruta_derivacion, camino |-> Cima.camino])]_vars

\* The first solution of a search that has no end is with the consumer.
C18_Testigo ==
    /\ kb = KBCiclo /\ spc = "consumir"
    /\ soluciones = <<>> /\ Len(intentos) = 1
    /\ Cima.sustituciones = (Str("X", "") :> Str("a", ""))

\* The attempt of the log that entered the call on top of position k.
IntentoDe(k) ==
    CHOOSE a \in {intentos[n] : n \in 1..Len(intentos)} : a.camino = pila[k].camino

\* C20: the call entered after a goal unified with a fresh rule head has as
\* goals the body of that fresh rule, in the order declared, followed by
\* the goals that were pending, in their order (after a fact: the pending
\* goals alone); and a call always takes the first goal of its list,
\* leaving the others as they stand.
C20_CuerpoAntesQueResto ==
    /\ \A k \in 2..Len(pila) :
          LET clave == pila[k].camino[Len(pila[k].camino)]
              pendientes == pila[k - 1].queries_restantes
          IN  /\ pila[k].camino = Append(pila[k - 1].camino, clave)
              /\ IF clave[1] = 1
                 THEN LET regla == kb.reglas[clave[2]]
                          fresca == IntentoDe(k).item
                      IN  /\ pila[k].lista_queries = fresca.cuerpo \o pendientes
                          /\ Len(fresca.cuerpo) = Len(regla.cuerpo)
                          /\ MismaForma(ComoTermino(regla), ComoTermino(fresca))
                 ELSE pila[k].lista_queries = pendientes
    /\ \A k \in 1..Len(pila) :
          pila[k].pc \in {"hechos", "reglas"} =>
              /\ pila[k].lista_queries # <<>>
              /\ pila[k].queries_restantes = Tail(pila[k].lista_queries)
              /\ pila[k].query_sustituida =
                    aplicar_sustituciones(Head(pila[k].lista_queries),
                                          pila[k].sustituciones)

C20_Testigo ==
    \E k \in 2..Len(pila) :
        /\ pila[k].camino[Len(pila[k].camino)][1] = 1
        /\ pila[k - 1].queries_restantes # <<>>
        /\ Len(pila[k].lista_queries) > Len(pila[k - 1].queries_restantes)
        /\ pila[k].pc = "hechos"
        /\ Len(pila) > k
        /\ pila[k + 1].lista_queries = pila[k - 1].queries_restantes
        /\ pila[k + 1].pc = "reglas"

\* The attempt of the log that tried the candidate at the end of `camino`.
IntentoCon(camino) ==
    CHOOSE a \in {intentos[n] : n \in 1..Len(intentos)} : a.camino = camino

\* The route entry a successful attempt leaves: its kind, and the fact or
\* the fresh rule head that was unified.
EntradaDe(a, entrada) ==
    LET clave == a.camino[Len(a.camino)]
    IN  /\ a.ok
        /\ IF clave[1] = 0
           THEN entrada.tipo = "HECHO" /\ entrada.item = kb.hechos[clave[2]]
                /\ a.item = entrada.item
           ELSE entrada.tipo = "REGLA" /\ entrada.item = a.item.cabeza

\* C22: routes are per branch and only grow at the end: the route of a
\* call is the route of its caller followed by the one entry of the step
\* that entered it (the outermost call has the empty route), so the route
\* of a solution has one entry per fact matched or rule applied on its
\* branch, in the order of the steps, and none of another branch.
C22_RutaPorRama ==
    /\ pila # <<>> => pila[1].ruta_derivacion = <<>>
    /\ \A k \in 2..Len(pila) :
          LET ruta == pila[k].ruta_derivacion
          IN  /\ Len(ruta) = Len(pila[k - 1].ruta_derivacion) + 1
              /\ SubSeq(ruta, 1, Len(ruta) - 1) = pila[k - 1].ruta_derivacion
              /\ ruta[Len(ruta)].query = pila[k - 1].query_sustituida
              /\ EntradaDe(IntentoCon(pila[k].camino), ruta[Len(ruta)])
    /\ \A n \in 1..Len(soluciones) :
          LET sol == soluciones[n]
          IN  /\ Len(sol.ruta) = Len(sol.camino)
              /\ \A j \in 1..Len(sol.ruta) :
                    EntradaDe(IntentoCon(SubSeq(sol.camino, 1, j)), sol.ruta[j])

\* A later solution of a search that matched facts and applied rules, some
\* of whose attempts failed.
C22_Testigo ==
    /\ spc = "fin" /\ Len(soluciones) >= 3
    /\ \E n \in 2..Len(soluciones) :
          LET ruta == soluciones[n].ruta
          IN  /\ Len(ruta) = 3
              /\ ruta[1].tipo = "REGLA" /\ ruta[2].tipo = "HECHO"
              /\ ruta[2] # soluciones[1].ruta[2]
    /\ \E k \in 1..Len(intentos) : ~intentos[k].ok

\* What the consumer receives from the call on top.
ParDeCima ==
    [sustituciones |-> Cima.sustituciones, ruta |-> Cima.ruta_derivacion,
     camino |-> Cima.camino]

\* A call with no goals is the innermost one, has entered neither loop,
\* and has handed over its pair once it stands after the yield.
SinMetasEsHoja ==
    /\ \A k \in 1..Len(pila) :
          pila[k].lista_queries = <<>> =>
              /\ k = Len(pila)
              /\ pila[k].pc \in {"inicio", "return"} /\ pila[k].i = 1
              /\ (pila[k].pc = "return" /\ spc = "buscar") =>
                    soluciones # <<>> /\ soluciones[Len(soluciones)] = ParDeCima
              /\ (pila[k].pc = "inicio" \/ spc = "consumir") =>
                    \A n \in 1..Len(soluciones) :
                        soluciones[n].camino # pila[k].camino
    /\ \A m \in 1..Len(soluciones), n \in 1..Len(soluciones) :
          m # n => soluciones[m].camino # soluciones[n].camino

\* C23: a call of solve with an empty list of goals yields one solution,
\* the substitution and the route it was given, as they are, and then
\* ends; it tries no fact and no rule and leaves the counter alone.
C23_MetasVaciasUnaSolucion ==
    /\ []SinMetasEsHoja
    /\ [][(pila # <<>> /\ Cima.lista_queries = <<>>) =>
            /\ intentos' = intentos /\ contador' = contador
            /\ CASE Cima.pc = "inicio" ->
                       /\ pila' = PonerCima([Cima EXCEPT !.pc = "return"])
                       /\ spc' = "consumir" /\ soluciones' = soluciones
                 [] Cima.pc = "return" /\ spc = "consumir" ->
                       /\ pila' = pila /\ spc' = "buscar"
                       /\ soluciones' = Append(soluciones, ParDeCima)
                 [] OTHER ->
                       /\ pila' = SubSeq(pila, 1, Len(pila) - 1)
                       /\ spc' = "buscar" /\ soluciones' = soluciones]_vars

\* A call without goals has yielded the second solution of a search,
\* reached through a rule, and is about to end.
C23_Testigo ==
    /\ spc = "buscar" /\ pila # <<>>
    /\ Cima.lista_queries = <<>> /\ Cima.pc = "return"
    /\ Cima.sustituciones # DictVacio /\ Len(Cima.ruta_derivacion) >= 2
    /\ Len(soluciones) = 2 /\ contador > 0

QueryBucle == Atomo1("p", Str("a", ""))

\* The rule attempts of the log: one per call of solve that has reached its
\* loop over the rules.
Expansiones == Len(SelectSeq(intentos, LAMBDA a : a.ok))

\* C24: with the rule p(X) :- p(X) and no fact, the search for p(a) never
\* finishes and never yields a solution: it is always still searching, each
\* call re-expanding the goal p(a) one level deeper, the counter one higher.
C24_BucleSinFin ==
    (kb = KBBucle /\ query = QueryBucle) =>
        /\ spc = "buscar"
        /\ soluciones = <<>> /\ salida = <<>>
        /\ pila # <<>>
        /\ \A k \in 1..Len(pila) : pila[k].lista_queries = <<
               IF k = 1 THEN QueryBucle
               ELSE Atomo1("p", Str("_", "X_" \o ToString(k - 1)))>>
        /\ \A k \in 1..Len(pila) :
               pila[k].pc # "inicio" => pila[k].query_sustituida = QueryBucle
        /\ contador = Expansiones /\ contador = Len(pila) - 1

\* Every binding of d is a binding of e, with the same value.
Extiende(d, e) ==
    /\ DOMAIN d \subseteq DOMAIN e
    /\ \A v \in DOMAIN d : e[v] = d[v]

\* C29: along a branch of the search bindings only accumulate: the dict a
\* successful unificar returns holds every binding of the dict it was
\* given, with the same value, and what it adds are bindings of variables
\* that had none; so the dict of a call extends the dict of its caller, and
\* the dict of a solution extends the dict of every step of its branch.
C29_LigadurasSeAcumulan ==
    /\ \A k \in 1..Len(intentos) :
          intentos[k].ok =>
              /\ Extiende(intentos[k].desde, intentos[k].hasta)
              /\ \A v \in DOMAIN intentos[k].hasta : es_variable(v)
    /\ \A k \in 2..Len(pila) :
          /\ Extiende(pila[k - 1].sustituciones, pila[k].sustituciones)
          /\ pila[k].sustituciones = IntentoCon(pila[k].camino).hasta
    /\ \A n \in 1..Len(soluciones) :
          \A j \in 1..Len(soluciones[n].camino) :
              Extiende(IntentoCon(SubSeq(soluciones[n].camino, 1, j)).hasta,
                       soluciones[n].sustituciones)

\* A solution at the end of a branch of three steps, each of which added
\* bindings to the ones before.
C29_Testigo ==
    \E n \in 1..Len(soluciones) :
        LET camino == soluciones[n].camino
            d1 == IntentoCon(SubSeq(camino, 1, 1)).hasta
            d2 == IntentoCon(SubSeq(camino, 1, 2)).hasta
        IN  /\ Len(camino) = 3
            /\ d1 # DictVacio
            /\ DOMAIN d1 # DOMAIN d2
            /\ DOMAIN d2 # DOMAIN soluciones[n].sustituciones

\* C30: facts are unified as they are stored, only rules are freshened:
\* trying a fact takes no value from the counter, the dict a matching fact
\* gives is that of unifying the resolved goal with the stored fact, and
\* the route names the stored fact; so a variable of a fact is the
\* variable of that name in the query and in every other use of the fact
\* on the branch: with the fact p(V), the goals p(a), p(b) of t(a, b)
\* cannot both be met, those of t(a, a) can, and t(a, V) binds the V of
\* the query.
C30_HechosSinRenombrar ==
    /\ [](/\ \A k \in 1..Len(intentos) :
              LET clave == intentos[k].camino[Len(intentos[k].camino)]
              IN  clave[1] = 0 => intentos[k].item = kb.hechos[clave[2]]
          /\ \A k \in 2..Len(pila) :
              LET clave == pila[k].camino[Len(pila[k].camino)]
                  ruta == pila[k].ruta_derivacion
              IN  clave[1] = 0 =>
                     /\ ruta[Len(ruta)].item = kb.hechos[clave[2]]
                     /\ pila[k].sustituciones =
                            unificar(pila[k - 1].query_sustituida, kb.hechos[clave[2]],
                                     pila[k - 1].sustituciones).subs
          /\ (kb = KBHechoAbierto /\ spc = "fin") =>
                CASE query = Atomo2("t", Str("a", ""), Str("b", "")) ->
                        soluciones = <<>>
                  [] query = Atomo2("t", Str("a", ""), Str("a", "")) ->
                        /\ Len(soluciones) = 1
                        /\ soluciones[1].sustituciones[Str("V", "")] = Str("a", "")
                  [] OTHER ->
                        /\ Len(soluciones) = 1
                        /\ salida = <<[tipo |-> "Sustituciones",
                                       pares |-> <<<<Str("V", ""), Str("a", "")>>>>]>>)
    /\ [][(pila # <<>> /\ Cima.pc = "hechos") => contador' = contador]_vars

\* t(a, b) over the fact p(V): the first goal bound V to a, the second met
\* the fact with V bound and failed, and the search ended with nothing.
C30_Testigo ==
    /\ kb = KBHechoAbierto /\ spc = "fin" /\ soluciones = <<>>
    /\ query = Atomo2("t", Str("a", ""), Str("b", ""))
    /\ \E i \in 1..Len(intentos), j \in 1..Len(intentos) :
          /\ i < j
          /\ intentos[i].camino[Len(intentos[i].camino)] = <<0, 1>>
          /\ intentos[j].camino[Len(intentos[j].camino)] = <<0, 1>>
          /\ intentos[i].item = Atomo1("p", Str("V", "")) /\ intentos[i].ok
          /\ intentos[i].hasta[Str("V", "")] = Str("a", "")
          /\ intentos[j].item = Atomo1("p", Str("V", "")) /\ ~intentos[j].ok
          /\ intentos[j].desde = intentos[i].hasta

\* C6: every candidate tried for one goal is unified starting from the same
\* substitution, the one that was current when the goal was selected,
\* whatever earlier candidates and their sub-searches bound.
C6_HermanosAislados ==
    \A i \in 1..Len(intentos) :
        LET a == intentos[i]
        IN  /\ Len(a.camino) = 1 => a.desde = DictVacio
            /\ Len(a.camino) > 1 =>
                  \E k \in 1..Len(intentos) :
                     /\ intentos[k].camino = Padre(a.camino)
                     /\ intentos[k].ok
                     /\ a.desde = intentos[k].hasta
            /\ \A j \in 1..Len(intentos) :
                  Padre(intentos[j].camino) = Padre(a.camino)
                     => intentos[j].desde = a.desde

C6_Testigo ==
    \E i \in 1..Len(intentos), j \in 1..Len(intentos) :
        /\ i < j
        /\ Len(intentos[i].camino) >= 2
        /\ Padre(intentos[i].camino) = Padre(intentos[j].camino)
        /\ intentos[i].ok /\ intentos[i].hasta # intentos[i].desde
        /\ intentos[j].ok /\ intentos[j].hasta # intentos[j].desde
        /\ intentos[j].hasta # intentos[i].hasta
        /\ \E k \in 1..Len(intentos) :
              /\ i < k /\ k < j /\ intentos[k].ok
              /\ Padre(intentos[k].camino) = intentos[i].camino

QueryPuente ==
    Tup(<<Str("r", "equiere"), Str("a", "cta_nacimiento"), Str("X", "")>>)

\* C9: with the bridge rule and its two facts, the query
\* requiere(acta_nacimiento, X) ends (the search goes on until sld_solve is
\* done, within 60 steps) with exactly one solution, whose substitution
\* applied to X gives CURP.
C9_PuenteDaCURP ==
    (kb = KBPuente /\ query = QueryPuente) =>
        /\ spc = "fin" \/ PuedeSeguir
        /\ pasos <= 60
        /\ spc = "fin" =>
              /\ Len(soluciones) = 1
              /\ aplicar_sustituciones(Str("X", ""), soluciones[1].sustituciones)
                    = Str("C", "URP")

C9_Testigo ==
    /\ kb = KBPuente /\ query = QueryPuente /\ spc = "fin"
    /\ Len(soluciones) = 1
    /\ soluciones[1].sustituciones[Str("X", "")] = Str("_", "R_2")
    /\ soluciones[1].sustituciones[Str("_", "R_2")] = Str("C", "URP")
    /\ contador = 12

\* The dicts unificar gives for the query against each fact from position
\* i on, alone and from the empty dict, where it succeeds.
RECURSIVE UnificablesDesde(_)
UnificablesDesde(i) ==
    IF i > Len(kb.hechos) THEN <<>>
    ELSE LET u == unificar(query, kb.hechos[i], DictVacio)
         IN  (IF u.ok THEN <<u.subs>> ELSE <<>>) \o UnificablesDesde(i + 1)

Entregadas == [k \in 1..Len(soluciones) |-> soluciones[k].sustituciones]

QueryCosto ==
    Tup(<<Str("c", "osto"), Str("p", ""), Str("D", "esc"), Str("M", "onto")>>)

\* C10: with facts only, the solutions are, in declared order, one per fact
\* occurrence that unifies with the query, each with the bindings of that
\* fact alone; the costo query gives Desc=a, Monto=100 then Desc=b,
\* Monto=200; a ground query equal to a fact gives one empty solution, and
\* a query that matches no fact gives none.
C10_SoloHechos ==
    kb.reglas = <<>> =>
        /\ Len(Entregadas) <= Len(UnificablesDesde(1))
        /\ Entregadas = SubSeq(UnificablesDesde(1), 1, Len(Entregadas))
        /\ spc = "fin" =>
              /\ Entregadas = UnificablesDesde(1)
              /\ (kb = KBCosto /\ query = QueryCosto) =>
                    Entregadas =
                       <<(Str("D", "esc") :> Str("a", "") @@ Str("M", "onto") :> Num(100)),
                         (Str("D", "esc") :> Str("b", "") @@ Str("M", "onto") :> Num(200))>>
              /\ (kb = KBValido /\ query = kb.hechos[1]) => Entregadas = <<DictVacio>>
              /\ (kb = KBValido /\ query # kb.hechos[1]) => Entregadas = <<>>

C10_Testigo ==
    /\ spc = "fin" /\ kb = KBCosto /\ query = QueryCosto
    /\ Len(soluciones) = 2
    /\ soluciones[2].sustituciones[Str("M", "onto")] = Num(200)

\* C1: for ground terms A and B, unificar(A, B, {}) succeeds exactly when
\* A and B are structurally equal, and the dict it returns is then empty.
C1_CerradosUnificanSiIguales ==
    (ufase = "despues" /\ EsCerrado(p1) /\ EsCerrado(p2) /\ previo = DictVacio)
        => /\ Exito(resultado) <=> (p1 = p2)
           /\ resultado # RecursionError
           /\ Exito(resultado) => memoria[resultado] = DictVacio

C1_Testigo ==
    /\ ufase = "despues" /\ previo = DictVacio
    /\ p1 = Tup(<<Tup(<<Str("a", "")>>), Str("b", "")>>) /\ p2 = p1
    /\ Exito(resultado) /\ memoria[resultado] = DictVacio

\* C16: when one of the two resolved patterns is a variable and the
\* other a different term, unificar succeeds and the dict it returns is
\* the one it was given plus one binding: of the first resolved pattern to
\* the second when the first is a variable (so of two different unbound
\* variables the first is bound to the second), else of the second to the
\* first.
C16_LigaLaVariable ==
    ufase = "despues" =>
        LET q1 == aplicar_sustituciones(p1, previo)
            q2 == aplicar_sustituciones(p2, previo)
        IN  /\ (q1 # q2 /\ es_variable(q1)) =>
                  /\ Exito(resultado)
                  /\ memoria[resultado] = Put(previo, q1, q2)
            /\ (q1 # q2 /\ ~es_variable(q1) /\ es_variable(q2)) =>
                  /\ Exito(resultado)
                  /\ memoria[resultado] = Put(previo, q2, q1)

C16_Testigo ==
    /\ ufase = "despues"
    /\ p1 = Str("X", "") /\ p2 = Str("Y", "") /\ previo = DictVacio
    /\ Exito(resultado)
    /\ memoria[resultado] = (Str("X", "") :> Str("Y", ""))

\* C17: two compounds of different lengths never unify, whatever they
\* hold, variables included, and the outcome is the value None, not an
\* error raised.
C17_AridadDistintaFalla ==
    (/\ ufase = "despues"
     /\ EsTupla(p1) /\ EsTupla(p2)
     /\ Len(Elems(p1)) # Len(Elems(p2)))
        => resultado = None

C17_Testigo ==
    /\ ufase = "despues"
    /\ p1 = Tup(<<Str("X", "")>>) /\ p2 = Tup(<<Str("a", ""), Str("Y", "")>>)
    /\ previo # DictVacio
    /\ resultado = None

\* The element pairs of two compounds unified one after the other from the
\* left, each from the dict the pair before it gave.
RECURSIVE Hilado(_, _, _, _)
Hilado(e1, e2, i, sust) ==
    IF i > Len(e1) THEN [ok |-> TRUE, error |-> FALSE, subs |-> sust]
    ELSE LET u == unificar(e1[i], e2[i], sust)
         IN  IF u.ok THEN Hilado(e1, e2, i + 1, u.subs) ELSE u

EquisEquis == Tup(<<Str("X", ""), Str("X", "")>>)

\* C21: two compounds of one length are unified pair by pair from left to
\* right, each pair under the bindings the pairs before it made, and the
\* call fails as soon as a pair fails: (X, X) does not unify with (a, b),
\* and unifies with (a, a) giving X = a and nothing else.
C21_ParesHilados ==
    ufase = "despues" =>
        LET q1 == aplicar_sustituciones(p1, previo)
            q2 == aplicar_sustituciones(p2, previo)
        IN  /\ (/\ EsTupla(q1) /\ EsTupla(q2) /\ q1 # q2
                 /\ Len(Elems(q1)) = Len(Elems(q2))) =>
                  LET h == Hilado(Elems(q1), Elems(q2), 1, previo)
                  IN  /\ h.ok <=> Exito(resultado)
                      /\ h.error <=> (resultado = RecursionError)
                      /\ h.ok => memoria[resultado] = h.subs
            /\ (p1 = EquisEquis /\ previo = DictVacio
                 /\ p2 = Tup(<<Str("a", ""), Str("b", "")>>)) => resultado = None
            /\ (p1 = EquisEquis /\ previo = DictVacio
                 /\ p2 = Tup(<<Str("a", ""), Str("a", "")>>)) =>
                  /\ Exito(resultado)
                  /\ memoria[resultado] = (Str("X", "") :> Str("a", ""))

\* (X, X) against (a, b): the first pair bound X to a, the second failed.
C21_Testigo ==
    /\ ufase = "despues" /\ previo = DictVacio
    /\ p1 = EquisEquis /\ p2 = Tup(<<Str("a", ""), Str("b", "")>>)
    /\ resultado = None
    /\ \E r \in 1..Len(memoria) : memoria[r] = (Str("X", "") :> Str("a", ""))

\* C2: whenever unificar(t1, t2, S) succeeds with S', applying S' to t1 and
\* to t2 gives structurally identical terms.
C2_UnificadorIguala ==
    (ufase = "despues" /\ Exito(resultado))
        => aplicar_sustituciones(p1, memoria[resultado])
             = aplicar_sustituciones(p2, memoria[resultado])

\* Both resolved patterns are compounds of one length that hold two
\* different constants at some position.
ChoqueDeConstantes ==
    LET q1 == aplicar_sustituciones(p1, previo)
        q2 == aplicar_sustituciones(p2, previo)
    IN  /\ EsTupla(q1) /\ EsTupla(q2)
        /\ Len(Elems(q1)) = Len(Elems(q2))
        /\ \E i \in 1..Len(Elems(q1)) :
              /\ ~EsTupla(Elems(q1)[i]) /\ ~es_variable(Elems(q1)[i])
              /\ ~EsTupla(Elems(q2)[i]) /\ ~es_variable(Elems(q2)[i])
              /\ Elems(q1)[i] # Elems(q2)[i]

\* C7: unificar leaves the dict it is given with the bindings it had; on
\* success the bindings come in another, new dict; when a pair of elements
\* of two compounds cannot unify the call does not succeed, and the caller
\* sees no binding of the pairs before it.
C7_EntradaIntacta ==
    ufase = "despues"
        => /\ memoria[sustituciones] = previo
           /\ Exito(resultado) => resultado # sustituciones
           /\ ChoqueDeConstantes => ~Exito(resultado)

C7_Testigo ==
    /\ ufase = "despues" /\ previo # DictVacio
    /\ p1 = Tup(<<Str("X", ""), Str("a", "")>>)
    /\ p2 = Tup(<<Str("b", ""), Str("b", "")>>)
    /\ Str("X", "") \notin DOMAIN previo
    /\ resultado = None /\ memoria[sustituciones] = previo
    /\ \E r \in 1..Len(memoria) : Str("X", "") \in DOMAIN memoria[r]

=============================================================================
